---- MODULE Spec2Model ----
(***************************************************************************)
(* Crisis PR agent pipeline (backend/src): the stage orchestration of      *)
(* main.py and server.py, the ingestion stage (agent_1_watcher) and the    *)
(* risk quantifier (agent_3_scorer).                                       *)
(*                                                                         *)
(* Units.  Money is kept in integers: value_at_risk and total_var_impact   *)
(* in euro cents, API costs in 1/10000 EUR.  A viral coefficient v is      *)
(* kept as 100*v, a topic weight w as 10*w.                                *)
(***************************************************************************)
EXTENDS Integers, Sequences, FiniteSets, TLC

VARIABLES
    \* ---- orchestrator (main.py main / server.py crisis_response) ----
    driver,        \* "main" (CLI runner) or "server" (POST /api/crisis-response)
    skip_agent2,   \* main.py --skip-agent2
    pc,            \* position of the orchestrating thread
    stage,         \* stage-status map: stage name -> idle/submitted/running/returned/raised
    articles,      \* state["articles"] (main) or req.articles (server)
    result2,       \* what Precedent Research returned
    result3,       \* what Risk Quantifier returned
    result4,       \* what Strategy Synthesis returned
    strat_in,      \* the arguments Strategy Synthesis was started with
    invoice,       \* cfo_result["invoice"]
    report,        \* what the run returns to its caller
    ret,           \* stage name -> what the stage's entry point returned
    outage,        \* the stages all of whose provider calls failed in this run
    \* ---- risk quantifier (scorer_node), step level ----
    sc_pc,         \* position of scorer_node's own thread
    sc_in,         \* its input list (state["articles"])
    sc_task,       \* per input index: pending/running/done/raised
    sc_result,     \* per input index: what the task returned
    sc_enriched,   \* enriched_articles, in as_completed order
    sc_max_sev,    \* max_severity
    sc_total,      \* total_var_impact
    sc_out,        \* the dict scorer_node returned
    sc_resp,       \* per input index: what the provider answers for that signal
    \* ---- ingestion (watcher_node), step level ----
    w_pc,          \* position inside watcher_node
    w_raw,         \* what search_news returns (or would return)
    w_search,      \* the search call: "ok", "raises" or "not_configured"
    w_cluster,     \* the clustering provider's answer
    w_idx,         \* loop index over raw_results
    w_articles,    \* articles
    w_subjects,    \* subjects
    w_events,      \* step ids handed to on_step, in emission order
    w_calls,       \* provider/search calls made: records [site, attempts, ok]
    w_out,         \* what watcher_node returned
    w_on_step,     \* state["on_step"]: what the callback does with each step id
    w_state,       \* the input state: company_name, customer_id, crisis_id
    w_ident,       \* the locals customer_id and crisis_id
    w_out_ids,     \* customer_id and crisis_id of the dict returned
    w_uuid,        \* uuid.uuid4() calls made so far in the process
    w_issued,      \* the crisis ids generated by the earlier calls
    \* ---- progress stream (_search_stream_generator) ----
    st_steps,      \* the step ids watcher_node emits in this run, in order
    st_fate,       \* how watcher_node ends in this run: "returns" or "raises"
    st_wpc,        \* position of the worker thread (run_watcher)
    st_next,       \* index in st_steps of the next step the worker emits
    st_queue,      \* event_queue
    st_cpc,        \* position of the consumer: reading / closed / disconnected
    st_out,        \* the SSE events yielded to the client, in order
    \* ---- one call of strategist_node / strategist_from_data ----
    a4_pc,          \* position inside the call
    a4_entry,       \* "node" (strategist_node) or "from_data"
    a4_customer_id, \* customer_id handed to _run_strategist ("" when absent)
    a4_crisis_id,   \* crisis_id handed to _run_strategist ("" when absent)
    a4_llm,         \* what the provider does in this call
    a4_sdk,         \* whether the paid package could be imported
    a4_signals,     \* the signals handed to _send_signal, in order
    a4_out,         \* what the call returned
    \* ---- one call of precedents_node / precedents_node_from_topic ----
    p_pc,          \* position inside the call
    p_entry,       \* "main" (precedents_node) or "server" (..._from_topic)
    p_sdk,         \* whether the paid package could be imported
    p_research,    \* what the three grounded searches do in this call
    p_extract,     \* what the extraction provider does in this call
    p_verify,      \* what the verification provider does in this call
    p_output,      \* the Agent2Output in hand
    p_signals,     \* the signals handed to _send_signal, in order
    p_out,         \* what the call returned
    \* ---- the parallel block of crisis_response, with the module globals ----
    k_env,           \* os.environ: GOOGLE_API_KEY and GOOGLE_API_KEY1 ("" = unset)
    GOOGLE_API_KEY,  \* llm_client.GOOGLE_API_KEY, "" before the import
    GOOGLE_API_KEY1, \* llm_client.GOOGLE_API_KEY1, "" before the import
    k_pc,            \* position of the request thread
    k_articles,      \* req.articles, the list both workers are handed
    k_a2,            \* position of precedents_node_from_topic in its thread
    k_details,       \* article_details built by precedents_node_from_topic
    k_a3,            \* the input indices scorer_node has enriched so far
    k_enriched,      \* enriched_articles of scorer_node
    k_calls,         \* the provider calls made so far: [agent, key]
    \* ---- one call of _retry_llm(fn, retries) ----
    r_pc,          \* position inside the call
    r_retries,     \* the retries argument
    r_fn,          \* what fn does on its 1st, 2nd, ... call: a value, or "raise"
    r_attempt,     \* the loop variable attempt
    r_calls,       \* how many times fn was called
    r_sleeps,      \* the arguments of time.sleep, in order
    r_out          \* what the call returned

ovars == <<driver, skip_agent2, pc, stage, articles, result2, result3, result4,
           strat_in, invoice, report, ret, outage>>
svars == <<sc_pc, sc_in, sc_task, sc_result, sc_enriched, sc_max_sev, sc_total,
           sc_out, sc_resp>>
wvars == <<w_pc, w_raw, w_search, w_cluster, w_idx, w_articles, w_subjects,
           w_events, w_calls, w_out>>
stvars == <<st_steps, st_fate, st_wpc, st_next, st_queue, st_cpc, st_out>>
a4vars == <<a4_pc, a4_entry, a4_customer_id, a4_crisis_id, a4_llm, a4_sdk,
           a4_signals, a4_out>>
pvars == <<p_pc, p_entry, p_sdk, p_research, p_extract, p_verify, p_output,
          p_signals, p_out>>
kvars == <<k_env, GOOGLE_API_KEY, GOOGLE_API_KEY1, k_pc, k_articles, k_a2,
          k_details, k_a3, k_enriched, k_calls>>
rvars == <<r_pc, r_retries, r_fn, r_attempt, r_calls, r_sleeps, r_out>>
\* the input state of a watcher_node call
ivars == <<w_on_step, w_state, w_ident, w_out_ids, w_uuid, w_issued>>
vars == <<ovars, svars, wvars, stvars, a4vars, pvars, kvars, rvars, ivars>>

\* the variables of the call-level models below, which the orchestrators,
\* the scorer steps and the watcher steps leave alone
callvars == <<stvars, a4vars, pvars, kvars, rvars>>
othervars == <<callvars, ivars>>
\* everything but the progress stream
notStream == <<ovars, svars, wvars, a4vars, pvars, kvars, rvars, ivars>>
\* everything but the strategist call
notA4 == <<ovars, svars, wvars, stvars, pvars, kvars, rvars, ivars>>
\* everything but the precedents call
notP == <<ovars, svars, wvars, stvars, a4vars, kvars, rvars, ivars>>
\* everything but the parallel block
notK == <<ovars, svars, wvars, stvars, a4vars, pvars, rvars, ivars>>
\* everything but the retry helper
notR == <<ovars, svars, wvars, stvars, a4vars, pvars, kvars, ivars>>

----------------------------------------------------------------------------
(* Bounds of the model *)

\* longest article list handed to a stage
MaxArticles == 2
\* most raw items a search returns in the model (search_news asks for 5)
MaxRaw == 2
\* most precedent cases a successful research returns in the model
MaxCases == 2
\* most calls of watcher_node made one after the other
MaxRuns == 3
\* most enriched articles the aggregation of scorer_node is checked with
MaxEnriched == 4
\* most raw search results the sort and the grouping are checked with
MaxGrouped == 4
\* most articles the fan-out of scorer_node is checked with (more than the
\* pool has workers)
MaxFanOut == 6

----------------------------------------------------------------------------
(* Generic helpers *)

Min(a, b) == IF a <= b THEN a ELSE b
Max(a, b) == IF a >= b THEN a ELSE b

Range(s) == {s[i] : i \in 1..Len(s)}

\* the first n elements of s (all of s when it is shorter)
Take(s, n) == SubSeq(s, 1, Min(Len(s), n))

\* all sequences over S of length 0..n
SeqUpTo(S, n) == UNION {[1..k -> S] : k \in 0..n}

\* all orderings of the index set 1..n
Perms(n) == {p \in [1..n -> 1..n] : \A i, j \in 1..n : i # j => p[i] # p[j]}

\* round(a / b): a / b rounded to the nearest integer, ties to even
RoundDiv(a, b) ==
    LET q == a \div b
        r == a % b
    IN  IF 2 * r > b \/ (2 * r = b /\ q % 2 = 1) THEN q + 1 ELSE q

RECURSIVE SumSeq(_)
SumSeq(s) == IF s = <<>> THEN 0 ELSE Head(s) + SumSeq(Tail(s))

\* Python's list.sort(key=..., reverse=True) / sorted(..., reverse=True): a
\* stable sort, descending by key; items with equal keys keep their order.
\* The sequence sorted holds <<key, item>> pairs.
RECURSIVE InsertDesc(_, _)
InsertDesc(x, s) ==
    IF s = <<>> THEN <<x>>
    ELSE IF Head(s)[1] >= x[1] THEN <<Head(s)>> \o InsertDesc(x, Tail(s))
    ELSE <<x>> \o s

RECURSIVE SortPairsDesc(_)
SortPairsDesc(s) ==
    IF s = <<>> THEN <<>>
    ELSE InsertDesc(s[Len(s)], SortPairsDesc(SubSeq(s, 1, Len(s) - 1)))

Items(pairs) == [i \in 1..Len(pairs) |-> pairs[i][2]]

\* nothing assigned yet (None, or {} where the code reads it with .get)
NoResult == [kind |-> "none", keys |-> {}]

\* A Python dict with optional keys is a record that carries the set of the
\* keys present; d.get(k, default):
DictGet(d, k, default) == IF k \in d.keys THEN d[k] ELSE default

----------------------------------------------------------------------------
(* Signals (articles).  One record shape is used from ingestion to the     *)
(* risk quantifier.  keys is the set of dict keys present (a field whose  *)
(* key is absent holds a filler); wellformed = FALSE stands for a          *)
(* caller-supplied dict whose authority_score or severity_score is not     *)
(* convertible by int() (JSON null, "high"), which only a request body can *)
(* contain.                                                                *)

SUBJECT_KEYS == {"security_fraud", "legal_compliance", "ethics_management",
                 "labor_relations", "financial_performance",
                 "operational_incident", "product_bug", "customer_service"}

Sentiments == {"negative", "neutral", "positive"}

----------------------------------------------------------------------------
(* Risk Quantifier: agent_3_scorer/node.py *)

CAC == 100
ARR == 1200
TOTAL_CLIENTS == 10000
REACH_CAP == 1000000
REACH_MULTIPLIER == 5000
\* ACQUISITION_CONVERSION_RATE = 0.005, in 1/1000
ACQUISITION_CONVERSION_RATE == 5
\* EXPOSURE_RATE = 0.1, in percent
EXPOSURE_RATE == 10
\* CHURN_RATE_FACTOR = 0.1, in percent
CHURN_RATE_FACTOR == 10
\* DEDUP_WEIGHTS = [1.0, 0.2, 0.1], times 10; ranks past the list weigh 0.1
DEDUP_WEIGHTS == <<10, 2, 1>>
DEDUP_TAIL_WEIGHT == 1
\* max_workers of the enrichment pool
SCORER_WORKERS == 5
\* api_cost = len(enriched_articles) * 0.008, in 1/10000 EUR
AGENT3_COST_PER_ARTICLE == 80

\* TOPIC_WEIGHTS, times 10
TOPIC_WEIGHTS(topic) ==
    CASE topic = "security_fraud" -> 30
      [] topic = "legal_compliance" -> 20
      [] topic = "ethics_management" -> 15
      [] topic = "labor_relations" -> 16
      [] topic = "financial_performance" -> 14
      [] topic = "operational_incident" -> 13
      [] topic = "product_bug" -> 10
      [] topic = "customer_service" -> 5
      [] OTHER -> 10

GetTopicWeight(topic) == TOPIC_WEIGHTS(topic)

\* the provider's viral_coefficient left as answered
LeaveViral(v) == v

\* the snapping of viral_coefficient to a band (values times 100)
SnapViral(v) ==
    IF v <= 100 THEN 80
    ELSE IF v <= 135 THEN 120
    ELSE IF v <= 200 THEN 150
    ELSE 250

\* The provider's answer to one enrichment call: ok = FALSE is any failure
\* of the call (client not configured, timeout, rate limit, invalid
\* payload); otherwise a topic and a raw viral coefficient (times 100).
ProviderFail3 == [ok |-> FALSE, topic |-> "", viral |-> 0]
ProviderAnswers3 ==
    {ProviderFail3}
    \cup {[ok |-> TRUE, topic |-> t, viral |-> v] :
            t \in {"security_fraud", "unknown_topic"}, v \in {120, 250, 400}}

None3 == [none |-> TRUE, topic |-> "", viral_coefficient |-> 0]

\* _analyze_topic_and_viral: None on any exception, ArticleTopicAndViral
\* validates 0.5 <= viral_coefficient <= 3.0
AnalyzeTopicAndViral(resp) ==
    IF ~resp.ok \/ resp.viral < 50 \/ resp.viral > 300
    THEN None3
    ELSE [none |-> FALSE, topic |-> resp.topic,
          viral_coefficient |-> SnapViral(resp.viral)]

\* reach = min(5000 * authority * (severity / 2) * viral, REACH_CAP)
ComputeReach(authority_score, severity_score, viral_coefficient) ==
    Min((REACH_MULTIPLIER * authority_score * severity_score * viral_coefficient)
            \div 200,
        REACH_CAP)

\* TOTAL_CLIENTS * (authority / 5) * EXPOSURE_RATE
ComputeExposedClients(authority_score) ==
    (TOTAL_CLIENTS * authority_score * EXPOSURE_RATE) \div 500

\* reach * ACQUISITION_CONVERSION_RATE * CAC, in cents
ComputeAcquisitionLoss(reach) ==
    (reach * ACQUISITION_CONVERSION_RATE * CAC) \div 10

\* exposed * (severity / 5) * (topic_weight / 10) * CHURN_RATE_FACTOR * ARR, in cents
ComputeChurnLoss(authority_score, severity_score, topic_weight) ==
    (ComputeExposedClients(authority_score) * severity_score * topic_weight
        * CHURN_RATE_FACTOR * ARR) \div 500

ComputeValueAtRisk(reach, authority_score, severity_score, topic_weight) ==
    ComputeAcquisitionLoss(reach)
    + ComputeChurnLoss(authority_score, severity_score, topic_weight)

Raised3 == [raised |-> TRUE]

\* _enrich_single_article: raises when int() of a rating raises, else the
\* input record with the three derived fields added ({**art, ...}).
EnrichSingleArticle(art, resp) ==
    IF ~art.wellformed THEN Raised3
    ELSE
      LET authority_score == DictGet(art, "authority_score", 3)
          severity_score == DictGet(art, "severity_score", 2)
          tv == AnalyzeTopicAndViral(resp)
          topic_weight == IF tv.none THEN 10 ELSE GetTopicWeight(tv.topic)
          viral == IF tv.none THEN 120 ELSE tv.viral_coefficient
          reach == ComputeReach(authority_score, severity_score, viral)
      IN  [raised |-> FALSE,
           art |-> art,
           reach_estimate |-> reach,
           churn_risk_percent |->
               (ComputeExposedClients(authority_score) * 100) \div TOTAL_CLIENTS,
           value_at_risk |->
               ComputeValueAtRisk(reach, authority_score, severity_score,
                                  topic_weight)]

DedupWeight(i) == IF i <= Len(DEDUP_WEIGHTS) THEN DEDUP_WEIGHTS[i] ELSE DEDUP_TAIL_WEIGHT

\* the enriched articles left in completion order
UnsortedByVar(enriched) == enriched

\* sorted(enriched_articles, key=value_at_risk, reverse=True)
SortedByVar(enriched) ==
    Items(SortPairsDesc([i \in 1..Len(enriched) |->
                            <<enriched[i].value_at_risk, enriched[i]>>]))

\* total_var_impact: the dedup-weighted sum rounded to 2 decimals, in cents
TotalVarImpact(enriched) ==
    LET sorted == SortedByVar(enriched)
    IN  RoundDiv(SumSeq([i \in 1..Len(sorted) |->
                            sorted[i].value_at_risk * DedupWeight(i)]),
                 10)

\* max over the enriched articles of severity_score, from 0
RECURSIVE MaxSeverity(_)
MaxSeverity(enriched) ==
    IF enriched = <<>> THEN 0
    ELSE Max(DictGet(Head(enriched).art, "severity_score", 0),
             MaxSeverity(Tail(enriched)))

\* the dict scorer_node returns for an empty input (no cost key)
ScorerEmptyOutput ==
    [keys |-> {"articles", "total_var_impact", "estimated_financial_loss",
               "severity_score"},
     articles |-> <<>>, total_var_impact |-> 0, severity_score |-> 0,
     agent3_api_cost_eur |-> 0]

\* a scorer result that also reports a confidence
ScorerOutputWithConfidence(enriched, max_severity, total) ==
    [keys |-> {"articles", "total_var_impact", "estimated_financial_loss",
               "severity_score", "agent3_api_cost_eur", "confidence"},
     articles |-> enriched, total_var_impact |-> total,
     severity_score |-> max_severity,
     agent3_api_cost_eur |-> Len(enriched) * AGENT3_COST_PER_ARTICLE,
     confidence |-> "scored"]

\* the dict scorer_node returns after the fan-out
ScorerOutput(enriched, max_severity, total) ==
    [keys |-> {"articles", "total_var_impact", "estimated_financial_loss",
               "severity_score", "agent3_api_cost_eur"},
     articles |-> enriched, total_var_impact |-> total,
     severity_score |-> max_severity,
     agent3_api_cost_eur |-> Len(enriched) * AGENT3_COST_PER_ARTICLE]

\* The enriched list as the as_completed loop builds it when the tasks
\* complete in the order `order` (order[k] = input index of the k-th task
\* to complete): results of tasks that raised are skipped.
RECURSIVE CollectCompleted(_, _, _)
CollectCompleted(arts, resp, order) ==
    IF order = <<>> THEN <<>>
    ELSE LET r == EnrichSingleArticle(arts[Head(order)], resp[Head(order)])
         IN  (IF r.raised THEN <<>> ELSE <<r>>)
             \o CollectCompleted(arts, resp, Tail(order))

\* scorer_node as a function of its input, the provider's answers and the
\* completion order of the worker tasks
ScorerNode(arts, resp, order) ==
    IF arts = <<>> THEN ScorerEmptyOutput
    ELSE LET enriched == CollectCompleted(arts, resp, order)
         IN  ScorerOutput(enriched, MaxSeverity(enriched), TotalVarImpact(enriched))


----------------------------------------------------------------------------
(* Ingestion: agent_1_watcher/node.py, clients/tavily_client.py *)

STEP_INITIALIZING == "initializing"
STEP_SCANNING == "scanning_news"
STEP_ANALYZING == "analyzing_sentiment"
STEP_CROSS_REFERENCING == "cross_referencing"
STEP_EVALUATING == "evaluating_criticality"
STEP_COMPILING == "compiling_results"

\* the order the frontend expects (AGENT_STEPS)
StepOrder == <<STEP_INITIALIZING, STEP_SCANNING, STEP_ANALYZING,
               STEP_CROSS_REFERENCING, STEP_EVALUATING, STEP_COMPILING>>

\* SUBJECT_RISK_MULTIPLIERS, times 10 (shared/types.py)
SUBJECT_RISK_MULTIPLIERS(subject) ==
    CASE subject = "security_fraud" -> 18
      [] subject = "legal_compliance" -> 15
      [] subject = "ethics_management" -> 18
      [] subject = "labor_relations" -> 16
      [] subject = "financial_performance" -> 14
      [] subject = "operational_incident" -> 13
      [] subject = "product_bug" -> 12
      [] subject = "customer_service" -> 10
      [] OTHER -> 10

GetRiskMultiplier(subject) == SUBJECT_RISK_MULTIPLIERS(subject)

\* SENTIMENT_WEIGHTS, times 10; .get(sentiment, 0.5)
SENTIMENT_WEIGHTS(sentiment) ==
    CASE sentiment = "negative" -> 10
      [] sentiment = "neutral" -> 5
      [] sentiment = "positive" -> 1
      [] OTHER -> 5

\* pub_age: age of the item in hours, NoDate when pub_date is missing or
\* does not parse.  _recency_multiplier, times 10.
NoDate == -1
RecencyMultiplier(pub_age) ==
    IF pub_age = NoDate THEN 10
    ELSE IF pub_age < 2 THEN 30
    ELSE IF pub_age < 3 * 24 THEN 15
    ELSE IF pub_age < 7 * 24 THEN 12
    ELSE IF pub_age < 30 * 24 THEN 10
    ELSE 7

\* round(x, 2) of x = n / 1000, as hundredths (ties to even; the sampled
\* inputs have no ties)
Round2(n) ==
    LET q == n \div 10
        r == n % 10
    IN  IF r > 5 \/ (r = 5 /\ q % 2 = 1) THEN q + 1 ELSE q

\* exposure_score = authority * severity * risk_mult * recency_mult *
\* sentiment_weight, rounded to 2 decimals; in hundredths
ExposureScore(authority_score, severity_score, subject, recency_mult, sentiment) ==
    Round2(authority_score * severity_score * GetRiskMultiplier(subject)
           * recency_mult * SENTIMENT_WEIGHTS(sentiment))

\* One raw search result together with what the calls made for it answer:
\*   title_ok  _validate_result(title, company_name)
\*   promo     the title is a newsletter/promo title
\*   llm       "error" (_analyze_article_with_gemini returns None),
\*             "not_substantive", or "scored"
RawItem(title_ok, promo, llm, subject, sentiment, authority, severity, pub_age) ==
    [title_ok |-> title_ok, promo |-> promo, llm |-> llm, subject |-> subject,
     sentiment |-> sentiment, authority_score |-> authority,
     severity_score |-> severity, pub_age |-> pub_age]

\* a raw item whose provider call fails
FallbackRawItem == RawItem(TRUE, FALSE, "error", "product_bug", "negative", 4, 3, NoDate)

RawItemSamples ==
    { RawItem(FALSE, FALSE, "scored", "product_bug", "negative", 4, 3, 48),
      RawItem(TRUE, TRUE, "scored", "product_bug", "negative", 4, 3, 48),
      RawItem(TRUE, FALSE, "error", "product_bug", "negative", 4, 3, NoDate),
      RawItem(TRUE, FALSE, "not_substantive", "product_bug", "negative", 4, 3, 48),
      RawItem(TRUE, FALSE, "scored", "security_fraud", "negative", 5, 5, 48),
      RawItem(TRUE, FALSE, "scored", "customer_service", "neutral", 4, 4, 200),
      RawItem(TRUE, FALSE, "scored", "not_a_subject", "POSITIVE?", 2, 5, 1000) }

Skip1 == [skip |-> TRUE]

\* the keys of the article dicts watcher_node builds
WatcherArticleKeys ==
    {"title", "summary", "url", "content", "pub_date", "author", "subject",
     "sub_theme", "sentiment", "authority_score", "severity_score", "recency_multiplier",
     "exposure_score"}

\* the body of the for loop of watcher_node for the raw item with index id:
\* skipped, or the article appended
AnalyzeItem(item, id) ==
    IF ~item.title_ok \/ item.promo THEN Skip1
    ELSE IF item.llm = "not_substantive" THEN Skip1
    ELSE
      LET fallback == item.llm = "error"
          subject == IF fallback THEN "ethics_management"
                     ELSE IF item.subject \in SUBJECT_KEYS THEN item.subject
                     ELSE "ethics_management"
          authority == IF fallback THEN 3 ELSE item.authority_score
          severity == IF fallback THEN 2 ELSE item.severity_score
          sentiment == IF fallback THEN "neutral"
                       ELSE IF item.sentiment \in Sentiments THEN item.sentiment
                       ELSE "neutral"
          recency == RecencyMultiplier(item.pub_age)
      IN  [skip |-> FALSE,
           article |->
             [id |-> id, keys |-> WatcherArticleKeys,
              subject |-> subject, sentiment |-> sentiment,
              authority_score |-> authority, severity_score |-> severity,
              recency_multiplier |-> recency,
              exposure_score |->
                  ExposureScore(authority, severity, subject, recency, sentiment),
              wellformed |-> TRUE]]

\* whether the loop body calls the provider for this item
CallsProvider(item) == item.title_ok /\ ~item.promo

\* the articles left in discovery order
UnsortedByExposure(arts) == arts

\* sorted ascending, then reversed: equal scores end up in reverse order
SortAscendingReversed(arts) ==
    LET asc == Items(SortPairsDesc([i \in 1..Len(arts) |->
                                       <<0 - arts[i].exposure_score, arts[i]>>]))
    IN  [i \in 1..Len(arts) |-> asc[Len(arts) + 1 - i]]

\* articles.sort(key=exposure_score, reverse=True)
SortByExposure(arts) ==
    Items(SortPairsDesc([i \in 1..Len(arts) |-> <<arts[i].exposure_score, arts[i]>>]))

\* max(chunk, key=exposure_score): the first article with the greatest score
TopArticle(chunk) ==
    LET best == CHOOSE i \in 1..Len(chunk) :
                   /\ \A j \in 1..Len(chunk) :
                        chunk[j].exposure_score <= chunk[i].exposure_score
                   /\ \A j \in 1..(i - 1) :
                        chunk[j].exposure_score < chunk[i].exposure_score
    IN  chunk[best]

Subject(label, chunk) ==
    [subject |-> label, summary_of |-> TopArticle(chunk).id,
     article_count |-> Len(chunk), articles |-> chunk]

SumExposure(arts) == SumSeq([i \in 1..Len(arts) |-> arts[i].exposure_score])

\* The clustering provider's answer: ok = FALSE is any failure of the call;
\* otherwise the clusters, each a list of 0-based article indices.
ClusterFail == [ok |-> FALSE, clusters |-> <<>>]
ClusterAnswers ==
    {ClusterFail}
    \cup {[ok |-> TRUE, clusters |-> c] :
            c \in { <<>>, << <<0>>, <<1>> >>, << <<0, 1>> >>, << <<1>> >>,
                    << <<0, 0>> >>, << <<0, 1>>, <<1, 7>> >>, << <<1, 0, 2>> >> }}

\* valid_idx = [i for i in cluster.article_indices if 0 <= i < n and i not in seen]
ValidIdx(indices, n, seen) ==
    SelectSeq(indices, LAMBDA i : 0 <= i /\ i < n /\ i \notin seen)

\* the loop over result.clusters of _cluster_articles_with_gemini
RECURSIVE BuildClusters(_, _, _)
BuildClusters(clusters, arts, seen) ==
    IF clusters = <<>> THEN <<>>
    ELSE LET valid == ValidIdx(Head(clusters), Len(arts), seen)
             chunk == [k \in 1..Len(valid) |-> arts[valid[k] + 1]]
         IN  (IF valid # <<>> THEN <<Subject("cluster", chunk)>> ELSE <<>>)
             \o BuildClusters(Tail(clusters), arts, seen \cup Range(valid))

\* _cluster_articles_with_gemini(...) or []: no call for 0 or 1 article
ClusterArticlesWithGemini(arts, answer) ==
    IF Len(arts) <= 1 \/ ~answer.ok THEN <<>>
    ELSE BuildClusters(answer.clusters, arts, {})

\* the subjects of the articles, in order of first occurrence (dict order)
RECURSIVE DistinctSubjects(_)
DistinctSubjects(arts) ==
    IF arts = <<>> THEN <<>>
    ELSE LET rest == DistinctSubjects(SubSeq(arts, 1, Len(arts) - 1))
             last == arts[Len(arts)].subject
         IN  IF last \in Range(rest) THEN rest ELSE Append(rest, last)

\* a grouping that yields a catch-all group when there is no article
GroupBySubjectWithOther(arts) ==
    IF arts = <<>>
    THEN <<[subject |-> "other", summary_of |-> 0, article_count |-> 0,
            articles |-> <<>>]>>
    ELSE LET ds == DistinctSubjects(arts)
         IN  [k \in 1..Len(ds) |->
                 Subject(ds[k], SelectSeq(arts, LAMBDA a : a.subject = ds[k]))]

\* the fallback of watcher_node: group by subject
GroupBySubject(arts) ==
    LET ds == DistinctSubjects(arts)
    IN  [k \in 1..Len(ds) |->
            Subject(ds[k], SelectSeq(arts, LAMBDA a : a.subject = ds[k]))]

\* subjects.sort(key=sum of exposure_score, reverse=True)
SortSubjects(subjects) ==
    Items(SortPairsDesc([i \in 1..Len(subjects) |->
                            <<SumExposure(subjects[i].articles), subjects[i]>>]))

\* the subjects watcher_node returns for the sorted article list
BuildSubjects(arts, answer) ==
    LET clustered == ClusterArticlesWithGemini(arts, answer)
    IN  SortSubjects(IF clustered # <<>> THEN clustered ELSE GroupBySubject(arts))

\* the dict watcher_node returns (customer_id and crisis_id left out)
WatcherOutput(arts, subjects) ==
    [keys |-> {"customer_id", "crisis_id", "articles", "subjects"},
     articles |-> arts, subjects |-> subjects]

\* the articles list after the for loop over raw_results[from..]
RECURSIVE CollectArticles(_, _)
CollectArticles(raw, from) ==
    IF from > Len(raw) THEN <<>>
    ELSE LET r == AnalyzeItem(raw[from], from)
         IN  (IF r.skip THEN <<>> ELSE <<r.article>>)
             \o CollectArticles(raw, from + 1)

\* watcher_node as a function of what the search and the provider answer,
\* for a search that returns
WatcherNode(raw, answer) ==
    IF raw = <<>> THEN WatcherOutput(<<>>, <<>>)
    ELSE LET arts == SortByExposure(CollectArticles(raw, 1))
         IN  WatcherOutput(arts, BuildSubjects(arts, answer))


----------------------------------------------------------------------------
(* Precedent Research, Strategy Synthesis, Invoice Builder and the         *)
(* narrative hijacker, as the orchestrator sees them: the dict each entry  *)
(* point returns.                                                          *)

Confidences == {"low", "medium", "high"}

\* the api costs of agent 2, in 1/10000 EUR
AGENT2_COST_SEARCHES == 1050
AGENT2_COST_FULL == 1220

\* precedents_node has the key agent2_sources, precedents_node_from_topic not
Agent2Keys(entry) ==
    {"precedents", "global_lesson", "confidence", "agent2_api_cost_eur"}
    \cup (IF entry = "main" THEN {"agent2_sources"} ELSE {})

\* the except branch of precedents_node / precedents_node_from_topic
Agent2Error(entry) ==
    [keys |-> Agent2Keys(entry), precedents |-> <<>>,
     global_lesson |-> "Analysis could not be completed due to a technical error.",
     confidence |-> "low", agent2_api_cost_eur |-> 0]

\* all three searches returned fewer than 100 characters
Agent2Minimal(entry) ==
    [keys |-> Agent2Keys(entry), precedents |-> <<>>,
     global_lesson |-> "No relevant historical precedents found for this crisis type.",
     confidence |-> "low", agent2_api_cost_eur |-> AGENT2_COST_SEARCHES]

\* research, extraction and verification went through: k cases
Agent2Ok(entry, k, conf) ==
    [keys |-> Agent2Keys(entry), precedents |-> [i \in 1..k |-> i],
     global_lesson |-> "lesson", confidence |-> conf,
     agent2_api_cost_eur |-> AGENT2_COST_FULL]

\* what main.py puts in place of Agent 2's result under --skip-agent2
Agent2Skipped ==
    [keys |-> {"precedents", "global_lesson", "confidence", "agent2_sources"},
     precedents |-> <<>>, global_lesson |-> "(Agent 2 skipped)",
     confidence |-> "low", agent2_api_cost_eur |-> 0]

\* the api cost of agent 4 with llm_pro, in 1/10000 EUR
AGENT4_COST == 200

EmptyDict == [keys |-> {}, alert_level |-> ""]

\* the except branch of strategist_node / strategist_from_data
Agent4Failed ==
    [keys |-> {"strategy_report", "recommended_strategy_name", "drafts_generated",
               "agent4_api_cost_eur"},
     strategy_report |-> EmptyDict, recommended_strategy_name |-> "",
     drafts_generated |-> 0, agent4_api_cost_eur |-> 0]

\* _run_strategist returned: the provider's alert label, recommended
\* strategy name and number of non-empty drafts
Agent4Ok(alert, recommended, drafts) ==
    [keys |-> {"strategy_report", "recommended_strategy_name", "drafts_generated",
               "agent4_api_cost_eur"},
     strategy_report |-> [keys |-> {"alert_level"}, alert_level |-> alert],
     recommended_strategy_name |-> recommended,
     drafts_generated |-> drafts, agent4_api_cost_eur |-> AGENT4_COST]

AlertLabels == {"IGNORE", "SOFT", "MEDIUM", "CRITICAL", "critical", "URGENT"}

Agent4Answers ==
    {Agent4Ok("IGNORE", "Silence", 3), Agent4Ok("CRITICAL", "Offensive", 1),
     Agent4Ok("URGENT", "", 3),
     Agent4Ok("SOFT", "Silence", 2),
     Agent4Ok("critical", "Offensive", 1)}

\* str.upper() on the sampled labels
Upper(label) == IF label = "critical" THEN "CRITICAL" ELSE label

\* TIER_PRICING and get_tier (utils/paid_helpers.py); prices in EUR
GetTier(alert_level) ==
    LET u == Upper(alert_level)
    IN  CASE u \in {"IGNORE", "SOFT"} -> [name |-> "Dismissed", price |-> 99]
          [] u = "CRITICAL" -> [name |-> "Full Defense", price |-> 2499]
          [] OTHER -> [name |-> "Shield", price |-> 999]

CONSULTING_HOUR_RATE_EUR == 150
BASE_AUDIT_FEE_EUR == 500
CRISIS_STRATEGY_FEE_EUR == 2500
\* hours_saved = cases_count * 3
HOURS_PER_CASE == 3

LineItem(agent, value, cost) ==
    [agent |-> agent, human_equivalent_value_eur |-> value,
     api_compute_cost_eur |-> cost]

\* _build_invoice.  Human-equivalent values in cents, api costs in
\* 1/10000 EUR, roi_multiplier in tenths.  AUDIT_RISK_PERCENT = 0.0001.
BuildInvoice(agent2_api_cost, agent3_api_cost, agent4_api_cost, cases_count, total_var_impact, alert_level) ==
    LET tier == GetTier(alert_level)
        total_api == agent2_api_cost + agent3_api_cost + agent4_api_cost
        agent2_consulting == cases_count * HOURS_PER_CASE * CONSULTING_HOUR_RATE_EUR * 100
        agent3_consulting == BASE_AUDIT_FEE_EUR * 100 + RoundDiv(total_var_impact, 10000)
        agent4_consulting == CRISIS_STRATEGY_FEE_EUR * 100
    IN  IF alert_level = "IGNORE"
        THEN [tier_name |-> tier.name, tier_price_eur |-> tier.price,
              line_items |-> <<>>,
              total_human_equivalent_eur |-> tier.price * 100,
              total_api_cost_eur |-> total_api,
              roi_multiplier |-> 0, action_refused |-> TRUE]
        ELSE [tier_name |-> tier.name, tier_price_eur |-> tier.price,
              line_items |->
                  << LineItem("Historical Strategist", agent2_consulting, agent2_api_cost),
                     LineItem("Risk Analyst", agent3_consulting, agent3_api_cost),
                     LineItem("Executive Strategist", agent4_consulting, agent4_api_cost) >>,
              total_human_equivalent_eur |->
                  agent2_consulting + agent3_consulting + agent4_consulting,
              total_api_cost_eur |-> total_api,
              roi_multiplier |->
                  IF total_api > 0 THEN RoundDiv(tier.price * 100000, total_api) ELSE 0,
              action_refused |-> FALSE]

SEVERITY_THRESHOLD == 3

\* hijacker_from_data never raises: below the threshold, and on any
\* exception, nothing is generated
HijackerResults(severity_score) ==
    {[html_generated |-> FALSE, deployed |-> FALSE, ads_simulated |-> FALSE]}
    \cup (IF severity_score < SEVERITY_THRESHOLD THEN {}
          ELSE {[html_generated |-> h, deployed |-> d, ads_simulated |-> TRUE] :
                  h \in BOOLEAN, d \in BOOLEAN} \ 
               {[html_generated |-> FALSE, deployed |-> TRUE, ads_simulated |-> TRUE]})


----------------------------------------------------------------------------
(* The orchestrators: main.py main() (driver "main") and the web flow      *)
(* (driver "server"): the client of scripts/capture-demo-data.py posts     *)
(* /api/search, and once that has answered posts /api/crisis-response,     *)
(* which server.py crisis_response serves.                                 *)

Stages == {"watcher", "precedents", "scorer", "strategist", "cfo", "hijacker"}
Workers == {"precedents", "scorer"}

\* what the model lets the search and the providers answer in a whole run
RunRawSamples ==
    { RawItem(TRUE, TRUE, "scored", "product_bug", "negative", 4, 3, 48),
      RawItem(TRUE, FALSE, "error", "product_bug", "negative", 4, 3, NoDate),
      RawItem(TRUE, FALSE, "scored", "security_fraud", "negative", 5, 5, 48) }
RunClusterAnswers == {ClusterFail, [ok |-> TRUE, clusters |-> << <<0, 1>> >>]}
RunAnswers3 == {ProviderFail3, [ok |-> TRUE, topic |-> "security_fraud", viral |-> 250]}

\* the article dict the client posts for an article of a subject
ClientArticle(a) ==
    [id |-> a.id, keys |-> {"title", "summary", "subject", "severity_score"},
     subject |-> a.subject, sentiment |-> "", authority_score |-> 0,
     severity_score |-> a.severity_score, recency_multiplier |-> 0,
     exposure_score |-> 0, wellformed |-> TRUE]

\* a posted dict whose authority_score is JSON null
NullRatingArticle ==
    [id |-> 0, keys |-> {"title", "authority_score"},
     subject |-> "", sentiment |-> "", authority_score |-> 0,
     severity_score |-> 0, recency_multiplier |-> 0,
     exposure_score |-> 0, wellformed |-> FALSE]

\* the bodies /api/crisis-response is posted with: the articles of one
\* subject of the search answer, or (articles: list[dict] takes anything)
\* such a list with a null rating in it, or an empty list
RequestArticles(subjects) ==
    LET posted == {[i \in 1..Len(sub.articles) |-> ClientArticle(sub.articles[i])] :
                      sub \in Range(subjects)}
    IN  posted
        \cup {<<>>}
        \cup {Take(<<NullRatingArticle>> \o l, MaxArticles) : l \in posted}
        \cup {Take(l \o <<NullRatingArticle>>, MaxArticles) : l \in posted}

CallStarted(s) == stage[s] \in {"running", "returned"}
\* a call made by the orchestrating thread has returned
CallReturned(s) == stage[s] = "returned"
FutureSubmitted(s) == stage[s] # "idle"
\* Future.done(): what as_completed yields and Future.result() waits for
FutureDone(s) == stage[s] \in {"returned", "raised"}
\* leaving the `with ThreadPoolExecutor` block: shutdown(wait=True)
PoolShutdown == \A s \in Workers : FutureDone(s)

IdleStages == [s \in Stages |-> "idle"]
NoReturns == [s \in Stages |-> NoResult]

InitOrchestrator ==
    /\ driver \in {"main", "server"}
    /\ skip_agent2 \in BOOLEAN
    /\ driver = "server" => ~skip_agent2
    /\ pc = "start"
    /\ stage = IdleStages
    /\ ret = NoReturns
    /\ articles = <<>>
    /\ result2 = NoResult
    /\ result3 = NoResult
    /\ result4 = NoResult
    /\ strat_in = NoResult
    /\ invoice = NoResult
    /\ report = NoResult
    /\ outage = {}

\* main.py 54 / server.py 56: result1 = watcher_node(state)
CallWatcher ==
    /\ pc = "start"
    /\ stage' = [stage EXCEPT !["watcher"] = "running"]
    /\ pc' = "watcher"
    /\ UNCHANGED <<svars, wvars, othervars, driver, skip_agent2, articles, result2, result3, result4,
                   strat_in, invoice, report, ret, outage>>

\* watcher_node returns
WatcherReturns ==
    /\ stage["watcher"] = "running"
    /\ \E raw \in SeqUpTo(RunRawSamples, MaxRaw), answer \in RunClusterAnswers :
          ret' = [ret EXCEPT !["watcher"] = WatcherNode(raw, answer)]
    /\ stage' = [stage EXCEPT !["watcher"] = "returned"]
    /\ UNCHANGED <<svars, wvars, othervars, driver, skip_agent2, pc, articles, result2, result3, result4,
                   strat_in, invoice, report, outage>>

\* the search call inside watcher_node raises: nothing catches it
WatcherRaises ==
    /\ stage["watcher"] = "running"
    /\ stage' = [stage EXCEPT !["watcher"] = "raised"]
    /\ UNCHANGED <<svars, wvars, othervars, driver, skip_agent2, pc, articles, result2, result3, result4,
                   strat_in, invoice, report, ret, outage>>

\* the exception leaves main() / the /api/search handler
WatcherExceptionPropagates ==
    /\ pc = "watcher"
    /\ stage["watcher"] = "raised"
    /\ pc' = "crashed"
    /\ UNCHANGED <<svars, wvars, othervars, driver, skip_agent2, stage, articles, result2, result3, result4,
                   strat_in, invoice, report, ret, outage>>

\* main.py 55: state.update(result1)
MainAfterWatcher ==
    /\ driver = "main"
    /\ pc = "watcher"
    /\ CallReturned("watcher")
    /\ articles' = DictGet(ret["watcher"], "articles", <<>>)
    /\ pc' = "check"
    /\ UNCHANGED <<svars, wvars, othervars, driver, skip_agent2, stage, result2, result3, result4,
                   strat_in, invoice, report, ret, outage>>

\* main.py 79-81: no articles, main() returns (None)
MainNoArticles ==
    /\ driver = "main"
    /\ pc = "check"
    /\ articles = <<>>
    /\ pc' = "done"
    /\ UNCHANGED <<svars, wvars, othervars, driver, skip_agent2, stage, articles, result2, result3, result4,
                   strat_in, invoice, report, ret, outage>>

\* main.py 92-93: result3 = scorer_node(state), called in the main thread
MainSkipCallScorer ==
    /\ driver = "main"
    /\ pc = "check"
    /\ articles # <<>>
    /\ skip_agent2
    /\ stage' = [stage EXCEPT !["scorer"] = "running"]
    /\ pc' = "scorer_sync"
    /\ UNCHANGED <<svars, wvars, othervars, driver, skip_agent2, articles, result2, result3, result4,
                   strat_in, invoice, report, ret, outage>>

\* main.py 93-99
MainSkipAfterScorer ==
    /\ pc = "scorer_sync"
    /\ CallReturned("scorer")
    /\ result3' = ret["scorer"]
    /\ result2' = Agent2Skipped
    /\ pc' = "merge"
    /\ UNCHANGED <<svars, wvars, othervars, driver, skip_agent2, stage, articles, result4,
                   strat_in, invoice, report, ret, outage>>

\* main.py 101-103: both stages are submitted to the pool
MainSubmit ==
    /\ driver = "main"
    /\ pc = "check"
    /\ articles # <<>>
    /\ ~skip_agent2
    /\ stage' = [stage EXCEPT !["precedents"] = "submitted", !["scorer"] = "submitted"]
    /\ pc' = "as_completed"
    /\ UNCHANGED <<svars, wvars, othervars, driver, skip_agent2, articles, result2, result3, result4,
                   strat_in, invoice, report, ret, outage>>

\* a pool thread takes a submitted stage and calls it
WorkerStart(s) ==
    /\ stage[s] = "submitted"
    /\ stage' = [stage EXCEPT ![s] = "running"]
    /\ UNCHANGED <<svars, wvars, othervars, driver, skip_agent2, pc, articles, result2, result3, result4,
                   strat_in, invoice, report, ret, outage>>

Agent2Results(entry) ==
    {Agent2Minimal(entry)}
    \cup {Agent2Ok(entry, k, conf) : k \in 1..MaxCases, conf \in Confidences}

\* precedents_node / precedents_node_from_topic returns
PrecedentsReturns ==
    /\ stage["precedents"] = "running"
    /\ \/ /\ ret' = [ret EXCEPT !["precedents"] = Agent2Error(driver)]
          /\ outage' = outage \cup {"precedents"}
       \/ /\ \E r \in Agent2Results(driver) : ret' = [ret EXCEPT !["precedents"] = r]
          /\ outage' = outage
    /\ stage' = [stage EXCEPT !["precedents"] = "returned"]
    /\ UNCHANGED <<svars, wvars, othervars, driver, skip_agent2, pc, articles, result2, result3, result4,
                   strat_in, invoice, report>>

\* scorer_node / scorer_from_articles returns
ScorerReturns ==
    /\ stage["scorer"] = "running"
    /\ \E resp \in [1..Len(articles) -> RunAnswers3], order \in Perms(Len(articles)) :
          /\ ret' = [ret EXCEPT !["scorer"] = ScorerNode(articles, resp, order)]
          /\ outage' = IF articles # <<>> /\ \A i \in 1..Len(articles) : ~resp[i].ok
                       THEN outage \cup {"scorer"} ELSE outage
    /\ stage' = [stage EXCEPT !["scorer"] = "returned"]
    /\ UNCHANGED <<svars, wvars, othervars, driver, skip_agent2, pc, articles, result2, result3, result4,
                   strat_in, invoice, report>>

\* main.py 104-110: as_completed yields a finished future; its result is kept
MainCollect(s) ==
    /\ pc = "as_completed"
    /\ FutureDone(s)
    /\ \/ /\ s = "precedents" /\ result2 = NoResult
          /\ result2' = ret[s] /\ UNCHANGED result3
       \/ /\ s = "scorer" /\ result3 = NoResult
          /\ result3' = ret[s] /\ UNCHANGED result2
    /\ UNCHANGED <<svars, wvars, othervars, driver, skip_agent2, pc, stage, articles, result4,
                   strat_in, invoice, report, ret, outage>>

\* main.py 104-111: the loop is exhausted and the with block is left
MainLeavePool ==
    /\ pc = "as_completed"
    /\ result2 # NoResult
    /\ result3 # NoResult
    /\ PoolShutdown
    /\ pc' = "merge"
    /\ UNCHANGED <<svars, wvars, othervars, driver, skip_agent2, stage, articles, result2, result3, result4,
                   strat_in, invoice, report, ret, outage>>

\* what strategist_node reads of state after state.update(result2) and
\* state.update(result3), and what server.py hands strategist_from_data
StrategistInput(r2, r3) ==
    [articles |-> DictGet(r3, "articles", <<>>),
     precedents |-> DictGet(r2, "precedents", <<>>),
     global_lesson |-> DictGet(r2, "global_lesson", ""),
     confidence |-> DictGet(r2, "confidence", "low"),
     total_var_impact |-> DictGet(r3, "total_var_impact", 0),
     severity_score |-> DictGet(r3, "severity_score", 0)]

\* main.py 112-146: state.update(result2); state.update(result3);
\* result4 = strategist_node(state)
MainCallStrategist ==
    /\ pc = "merge"
    /\ strat_in' = StrategistInput(result2, result3)
    /\ stage' = [stage EXCEPT !["strategist"] = "running"]
    /\ pc' = "strategist"
    /\ UNCHANGED <<svars, wvars, othervars, driver, skip_agent2, articles, result2, result3, result4,
                   invoice, report, ret, outage>>

\* strategist_node / strategist_from_data returns
StrategistReturns ==
    /\ stage["strategist"] = "running"
    /\ \/ /\ ret' = [ret EXCEPT !["strategist"] = Agent4Failed]
          /\ outage' = outage \cup {"strategist"}
       \/ /\ \E r \in Agent4Answers : ret' = [ret EXCEPT !["strategist"] = r]
          /\ outage' = outage
    /\ stage' = [stage EXCEPT !["strategist"] = "returned"]
    /\ UNCHANGED <<svars, wvars, othervars, driver, skip_agent2, pc, articles, result2, result3, result4,
                   strat_in, invoice, report>>

\* main.py 147-183: state.update(result4), the dumps and the summary; main()
\* ends and returns None
MainSummary ==
    /\ driver = "main"
    /\ pc = "strategist"
    /\ CallReturned("strategist")
    /\ result4' = ret["strategist"]
    /\ pc' = "done"
    /\ UNCHANGED <<svars, wvars, othervars, driver, skip_agent2, stage, articles, result2, result3,
                   strat_in, invoice, report, ret, outage>>


\* capture-demo-data.py 78-112: /api/search has answered; the client posts
\* /api/crisis-response
ClientPostCrisis ==
    /\ driver = "server"
    /\ pc = "watcher"
    /\ CallReturned("watcher")
    /\ \E body \in RequestArticles(DictGet(ret["watcher"], "subjects", <<>>)) :
          articles' = body
    /\ pc' = "request"
    /\ UNCHANGED <<svars, wvars, othervars, driver, skip_agent2, stage, result2, result3, result4,
                   strat_in, invoice, report, ret, outage>>

\* server.py 237-245: both stages are submitted to the pool
ServerSubmit ==
    /\ pc = "request"
    /\ stage' = [stage EXCEPT !["precedents"] = "submitted", !["scorer"] = "submitted"]
    /\ pc' = "result2"
    /\ UNCHANGED <<svars, wvars, othervars, driver, skip_agent2, articles, result2, result3, result4,
                   strat_in, invoice, report, ret, outage>>

\* server.py 247: precedents_result = future_agent2.result()
ServerResult2 ==
    /\ pc = "result2"
    /\ FutureDone("precedents")
    /\ result2' = ret["precedents"]
    /\ pc' = "result3"
    /\ UNCHANGED <<svars, wvars, othervars, driver, skip_agent2, stage, articles, result3, result4,
                   strat_in, invoice, report, ret, outage>>

\* server.py 248: scorer_result = future_agent3.result()
ServerResult3 ==
    /\ pc = "result3"
    /\ FutureDone("scorer")
    /\ result3' = ret["scorer"]
    /\ pc' = "leave_pool"
    /\ UNCHANGED <<svars, wvars, othervars, driver, skip_agent2, stage, articles, result2, result4,
                   strat_in, invoice, report, ret, outage>>

\* server.py 249-271: the with block is left; strategist_from_data is called
ServerCallStrategist ==
    /\ pc = "leave_pool"
    /\ PoolShutdown
    /\ strat_in' = StrategistInput(result2, result3)
    /\ stage' = [stage EXCEPT !["strategist"] = "running"]
    /\ pc' = "strategist"
    /\ UNCHANGED <<svars, wvars, othervars, driver, skip_agent2, articles, result2, result3, result4,
                   invoice, report, ret, outage>>

\* server.py 275-286: cfo_from_data is called
ServerCallCfo ==
    /\ driver = "server"
    /\ pc = "strategist"
    /\ CallReturned("strategist")
    /\ result4' = ret["strategist"]
    /\ stage' = [stage EXCEPT !["cfo"] = "running"]
    /\ pc' = "cfo"
    /\ UNCHANGED <<svars, wvars, othervars, driver, skip_agent2, articles, result2, result3,
                   strat_in, invoice, report, ret, outage>>

\* the costs server.py falls back to when a stage's dict has no cost key
DEFAULT_AGENT2_COST == 350
DEFAULT_AGENT3_COST == 800
DEFAULT_AGENT4_COST == 200

\* cfo_from_data returns {"invoice": ...} for the arguments of server.py 279-286
CfoReturns ==
    /\ stage["cfo"] = "running"
    /\ ret' = [ret EXCEPT !["cfo"] =
                 [keys |-> {"invoice"}, invoice |->
                    BuildInvoice(
                      DictGet(result2, "agent2_api_cost_eur", DEFAULT_AGENT2_COST),
                      DictGet(result3, "agent3_api_cost_eur", DEFAULT_AGENT3_COST),
                      DictGet(result4, "agent4_api_cost_eur", DEFAULT_AGENT4_COST),
                      Len(strat_in.precedents),
                      strat_in.total_var_impact,
                      DictGet(DictGet(result4, "strategy_report", EmptyDict),
                              "alert_level", "MEDIUM"))]]
    /\ stage' = [stage EXCEPT !["cfo"] = "returned"]
    /\ UNCHANGED <<svars, wvars, othervars, driver, skip_agent2, pc, articles, result2, result3, result4,
                   strat_in, invoice, report, outage>>

\* server.py 290-295: hijacker_from_data is called
ServerCallHijacker ==
    /\ pc = "cfo"
    /\ CallReturned("cfo")
    /\ invoice' = DictGet(ret["cfo"], "invoice", NoResult)
    /\ stage' = [stage EXCEPT !["hijacker"] = "running"]
    /\ pc' = "hijacker"
    /\ UNCHANGED <<svars, wvars, othervars, driver, skip_agent2, articles, result2, result3, result4,
                   strat_in, report, ret, outage>>

\* hijacker_from_data returns
HijackerReturns ==
    /\ stage["hijacker"] = "running"
    /\ \E h \in HijackerResults(strat_in.severity_score) :
          ret' = [ret EXCEPT !["hijacker"] = h]
    /\ stage' = [stage EXCEPT !["hijacker"] = "returned"]
    /\ UNCHANGED <<svars, wvars, othervars, driver, skip_agent2, pc, articles, result2, result3, result4,
                   strat_in, invoice, report, outage>>

\* server.py 301-317: the response
ServerRespond ==
    /\ pc = "hijacker"
    /\ CallReturned("hijacker")
    /\ report' = [kind |-> "report",
                  keys |-> {"strategy_report", "recommended_strategy_name",
                            "precedents", "global_lesson", "confidence",
                            "invoice", "hijacker"},
                  strategy_report |-> DictGet(result4, "strategy_report", EmptyDict),
                  recommended_strategy_name |->
                      DictGet(result4, "recommended_strategy_name", ""),
                  precedents |-> strat_in.precedents,
                  global_lesson |-> strat_in.global_lesson,
                  confidence |-> strat_in.confidence,
                  invoice |-> invoice,
                  hijacker |-> ret["hijacker"]]
    /\ pc' = "done"
    /\ UNCHANGED <<svars, wvars, othervars, driver, skip_agent2, stage, articles, result2, result3, result4,
                   strat_in, invoice, ret, outage>>


----------------------------------------------------------------------------
(* scorer_node step by step: the fan-out over the pool, the as_completed   *)
(* loop and the aggregation.                                               *)

FinishedTask == {"done", "raised"}

SomeTaskCollected == \E i \in 1..Len(sc_in) : sc_task[i] = "collected"
\* the for loop over as_completed(futures) is exhausted
AllTasksCollected == \A i \in 1..Len(sc_in) : sc_task[i] = "collected"

RunningTasks == {i \in 1..Len(sc_in) : sc_task[i] = "running"}

\* scorer_node 183-190: nothing to analyse
SC_Empty ==
    /\ sc_pc = "start"
    /\ sc_in = <<>>
    /\ sc_out' = ScorerEmptyOutput
    /\ sc_pc' = "returned"
    /\ UNCHANGED <<ovars, wvars, othervars, sc_in, sc_task, sc_result, sc_enriched,
                   sc_max_sev, sc_total, sc_resp>>

\* scorer_node 195-196: one task per article is submitted
SC_Submit ==
    /\ sc_pc = "start"
    /\ sc_in # <<>>
    /\ sc_task' = [i \in 1..Len(sc_in) |-> "pending"]
    /\ sc_pc' = "as_completed"
    /\ UNCHANGED <<ovars, wvars, othervars, sc_in, sc_result, sc_enriched, sc_max_sev,
                   sc_total, sc_out, sc_resp>>

\* a pool that starts a thread per submitted task
SC_TaskStartUnbounded(i) ==
    /\ sc_task[i] = "pending"
    /\ sc_task' = [sc_task EXCEPT ![i] = "running"]
    /\ UNCHANGED <<ovars, wvars, othervars, sc_pc, sc_in, sc_result, sc_enriched, sc_max_sev,
                   sc_total, sc_out, sc_resp>>

\* a pool thread (at most max_workers of them) takes a pending task
SC_TaskStart(i) ==
    /\ sc_task[i] = "pending"
    /\ Cardinality(RunningTasks) < SCORER_WORKERS
    /\ sc_task' = [sc_task EXCEPT ![i] = "running"]
    /\ UNCHANGED <<ovars, wvars, othervars, sc_pc, sc_in, sc_result, sc_enriched, sc_max_sev,
                   sc_total, sc_out, sc_resp>>

\* _enrich_single_article returns or raises in its thread
SC_TaskFinish(i) ==
    /\ sc_task[i] = "running"
    /\ LET r == EnrichSingleArticle(sc_in[i], sc_resp[i])
       IN  /\ sc_result' = [sc_result EXCEPT ![i] = r]
           /\ sc_task' = [sc_task EXCEPT ![i] = IF r.raised THEN "raised" ELSE "done"]
    /\ UNCHANGED <<ovars, wvars, othervars, sc_pc, sc_in, sc_enriched, sc_max_sev,
                   sc_total, sc_out, sc_resp>>

\* the loop body keeping the severity of the latest result only
SC_CollectLastSeverity(i) ==
    /\ sc_pc = "as_completed"
    /\ sc_task[i] \in FinishedTask
    /\ IF sc_task[i] = "done"
       THEN /\ sc_enriched' = Append(sc_enriched, sc_result[i])
            /\ sc_max_sev' = DictGet(sc_result[i].art, "severity_score", 0)
       ELSE UNCHANGED <<sc_enriched, sc_max_sev>>
    /\ sc_task' = [sc_task EXCEPT ![i] = "collected"]
    /\ UNCHANGED <<ovars, wvars, othervars, sc_pc, sc_in, sc_result, sc_total, sc_out, sc_resp>>

\* scorer_node 197-205: as_completed yields a finished task; its result is
\* appended, or its exception printed
SC_Collect(i) ==
    /\ sc_pc = "as_completed"
    /\ sc_task[i] \in FinishedTask
    /\ IF sc_task[i] = "done"
       THEN /\ sc_enriched' = Append(sc_enriched, sc_result[i])
            /\ sc_max_sev' = Max(sc_max_sev,
                                 DictGet(sc_result[i].art, "severity_score", 0))
       ELSE UNCHANGED <<sc_enriched, sc_max_sev>>
    /\ sc_task' = [sc_task EXCEPT ![i] = "collected"]
    /\ UNCHANGED <<ovars, wvars, othervars, sc_pc, sc_in, sc_result, sc_total, sc_out, sc_resp>>

\* scorer_node 207-216: after the loop and the pool, the dedup-weighted total
SC_Aggregate ==
    /\ sc_pc = "as_completed"
    /\ AllTasksCollected
    /\ sc_total' = TotalVarImpact(sc_enriched)
    /\ sc_pc' = "aggregated"
    /\ UNCHANGED <<ovars, wvars, othervars, sc_in, sc_task, sc_result, sc_enriched,
                   sc_max_sev, sc_out, sc_resp>>

\* scorer_node 229-238
SC_Return ==
    /\ sc_pc = "aggregated"
    /\ sc_out' = ScorerOutput(sc_enriched, sc_max_sev, sc_total)
    /\ sc_pc' = "returned"
    /\ UNCHANGED <<ovars, wvars, othervars, sc_in, sc_task, sc_result, sc_enriched,
                   sc_max_sev, sc_total, sc_resp>>

\* the article dicts scorer_node is called with: from ingestion, from the
\* client of /api/crisis-response, and one with a null rating
ScorerArticleSamples ==
    { AnalyzeItem(RawItem(TRUE, FALSE, "scored", "security_fraud", "negative",
                          5, 5, 48), 1).article,
      ClientArticle(AnalyzeItem(RawItem(TRUE, FALSE, "scored", "customer_service",
                                        "neutral", 4, 4, 200), 2).article),
      NullRatingArticle }

\* a dict posted to /api/crisis-response with a rating below the scale
\* (articles: list[dict] is not validated)
NegativeRatingArticle ==
    [id |-> 3, keys |-> {"title", "authority_score", "severity_score"},
     subject |-> "", sentiment |-> "", authority_score |-> -2,
     severity_score |-> 5, recency_multiplier |-> 0,
     exposure_score |-> 0, wellformed |-> TRUE]

\* the article dicts the aggregation is checked with
AggregateArticleSamples ==
    (ScorerArticleSamples \ {NullRatingArticle}) \cup {NegativeRatingArticle}

AggregateAnswerSamples ==
    {ProviderFail3, [ok |-> TRUE, topic |-> "security_fraud", viral |-> 250]}

ScorerAnswerSamples ==
    { ProviderFail3,
      [ok |-> TRUE, topic |-> "security_fraud", viral |-> 250],
      [ok |-> TRUE, topic |-> "unknown_topic", viral |-> 120],
      [ok |-> TRUE, topic |-> "customer_service", viral |-> 400] }


----------------------------------------------------------------------------
(* watcher_node step by step, with a progress callback installed.          *)

\* one provider or search call as the code makes it
Call(site, attempts, ok) == [site |-> site, attempts |-> attempts, ok |-> ok]

EmitTwice(events, step) == events \o <<step, step>>
\* _emit(step_id) with a callback installed: the step is handed to on_step
Emit(events, step) == Append(events, step)

\* what a callback can do with a step id
OnStepOutcomes == {"returns", "raises"}

\* callbacks that never raise, always raise, raise on the first step only
\* and raise on the last step only
OnStepNeverRaises == [step \in Range(StepOrder) |-> "returns"]
OnStepBehaviours ==
    { OnStepNeverRaises,
      [step \in Range(StepOrder) |-> "raises"],
      [step \in Range(StepOrder) |->
          IF step = STEP_INITIALIZING THEN "raises" ELSE "returns"],
      [step \in Range(StepOrder) |->
          IF step = STEP_COMPILING THEN "raises" ELSE "returns"] }

\* _emit without its try/except
EmitOutcomeUnguarded(step) == w_on_step[step]

\* how _emit(step_id) ends: `except Exception: pass` turns a raising
\* callback into a return
EmitOutcome(step) ==
    IF w_on_step[step] = "raises" THEN "returns" ELSE w_on_step[step]

\* consecutive _emit calls: the events handed to the callback, and whether
\* one of the calls raised (the later ones are then not made)
RECURSIVE EmitAll(_, _)
EmitAll(events, steps) ==
    IF steps = <<>> THEN [events |-> events, raised |-> FALSE]
    ELSE IF EmitOutcome(Head(steps)) = "raises"
         THEN [events |-> Emit(events, Head(steps)), raised |-> TRUE]
         ELSE EmitAll(Emit(events, Head(steps)), Tail(steps))

\* company names and customer ids are sequences of characters; a crisis id
\* is the number of the uuid4 call that made it, 0 an id made elsewhere
Lower(c) ==
    CASE c = "A" -> "a"
      [] c = "C" -> "c"
      [] OTHER -> c

\* _derive_customer_id:
\* (company_name or "unknown").lower().replace(" ", "_").replace("-", "_")[:64]
DeriveCustomerId(company_name) ==
    LET name == IF company_name = <<>> THEN <<"u", "n", "k", "n", "o", "w", "n">>
                ELSE company_name
        lowered == [i \in 1..Len(name) |-> Lower(name[i])]
        replaced == [i \in 1..Len(name) |->
                        IF lowered[i] \in {" ", "-"} THEN "_" ELSE lowered[i]]
    IN  Take(replaced, 64)

\* state.get("customer_id") or _derive_customer_id(company_name)
CustomerIdOf(state) ==
    IF DictGet(state, "customer_id", <<>>) # <<>> THEN state.customer_id
    ELSE DeriveCustomerId(DictGet(state, "company_name", <<>>))

\* uuid.uuid4(): a value no earlier call returned
Uuid4(calls) == calls + 1

\* a call that keeps the crisis_id of its input state
CrisisIdFromState(state, uuid) == DictGet(state, "crisis_id", uuid)

\* crisis_id = str(uuid.uuid4()): the input state is not consulted
CrisisIdOf(state, uuid) ==
    uuid

InputState(keys, company_name, customer_id) ==
    [keys |-> keys, company_name |-> company_name, customer_id |-> customer_id,
     crisis_id |-> 0]

AcmeCorp == <<"A", "c", "m", "e", " ", "C", "o", "r", "p">>
LongName == [i \in 1..70 |-> IF i = 65 THEN "-" ELSE "A"]

\* the state main.py and server.py pass: the company name alone
CompanyOnly == InputState({"company_name"}, AcmeCorp, <<>>)

\* input states without a crisis_id
BaseStates ==
    { CompanyOnly,
      InputState({}, <<>>, <<>>),
      InputState({"company_name"}, LongName, <<>>),
      InputState({"company_name", "customer_id"}, AcmeCorp, <<"A", "-", "1">>),
      InputState({"company_name", "customer_id"}, AcmeCorp, <<>>) }

\* the input states of a call made after the calls that generated `issued`:
\* a crisis_id in the state is one of theirs or one made elsewhere
InputStates(issued) ==
    BaseStates
    \cup {[b EXCEPT !.keys = @ \cup {"crisis_id"}, !.crisis_id = c] :
            b \in BaseStates, c \in issued \cup {0}}

NoIds == [customer_id |-> <<>>, crisis_id |-> 0]

\* what search_news returns: [] when the client is not configured
SearchResults == IF w_search = "ok" THEN w_raw ELSE <<>>

\* watcher_node 301: _emit(STEP_INITIALIZING)
W_Start ==
    /\ w_pc = "start"
    /\ LET e == EmitAll(w_events, <<STEP_INITIALIZING>>)
       IN  /\ w_events' = e.events
           /\ w_pc' = IF e.raised THEN "raised" ELSE "search"
    /\ w_ident' = [customer_id |-> CustomerIdOf(w_state),
                   crisis_id |-> CrisisIdOf(w_state, Uuid4(w_uuid))]
    /\ w_uuid' = w_uuid + 1
    /\ UNCHANGED <<ovars, svars, callvars, w_raw, w_search, w_cluster, w_idx, w_articles,
                   w_subjects, w_calls, w_out, w_on_step, w_state, w_out_ids,
                   w_issued>>

\* watcher_node 304: search_news raises (tavily_client.search is not guarded)
W_SearchRaises ==
    /\ w_pc = "search"
    /\ w_search = "raises"
    /\ w_calls' = Append(w_calls, Call("search", 1, FALSE))
    /\ w_pc' = "raised"
    /\ UNCHANGED <<ovars, svars, othervars, w_raw, w_search, w_cluster, w_idx, w_articles,
                   w_subjects, w_events, w_out>>

\* watcher_node 304-314: the search returns nothing
W_SearchEmpty ==
    /\ w_pc = "search"
    /\ w_search # "raises"
    /\ SearchResults = <<>>
    /\ w_calls' = IF w_search = "ok" THEN Append(w_calls, Call("search", 1, TRUE))
                  ELSE w_calls
    /\ LET e == EmitAll(w_events, <<STEP_SCANNING, STEP_COMPILING>>)
       IN  /\ w_events' = e.events
           /\ IF e.raised
              THEN w_pc' = "raised" /\ UNCHANGED <<w_out, w_out_ids>>
              ELSE /\ w_out' = WatcherOutput(<<>>, <<>>)
                   /\ w_out_ids' = w_ident
                   /\ w_pc' = "returned"
    /\ UNCHANGED <<ovars, svars, callvars, w_raw, w_search, w_cluster, w_idx, w_articles,
                   w_subjects, w_on_step, w_state, w_ident, w_uuid, w_issued>>

\* watcher_node 304-318: the search returns items
W_SearchFound ==
    /\ w_pc = "search"
    /\ w_search = "ok"
    /\ SearchResults # <<>>
    /\ w_calls' = Append(w_calls, Call("search", 1, TRUE))
    /\ LET e == EmitAll(w_events, <<STEP_SCANNING, STEP_ANALYZING>>)
       IN  /\ w_events' = e.events
           /\ IF e.raised
              THEN w_pc' = "raised" /\ UNCHANGED w_idx
              ELSE w_idx' = 1 /\ w_pc' = "loop"
    /\ UNCHANGED <<ovars, svars, othervars, w_raw, w_search, w_cluster, w_articles,
                   w_subjects, w_out>>

W_ItemDropsFailed ==
    /\ w_pc = "loop"
    /\ w_idx <= Len(w_raw)
    /\ LET item == w_raw[w_idx]
           r == AnalyzeItem(item, w_idx)
       IN  /\ w_articles' = IF r.skip \/ item.llm = "error"
                            THEN w_articles ELSE Append(w_articles, r.article)
           /\ w_calls' = IF CallsProvider(item)
                         THEN Append(w_calls, Call("analyze", 1, item.llm # "error"))
                         ELSE w_calls
    /\ w_idx' = w_idx + 1
    /\ UNCHANGED <<ovars, svars, othervars, w_pc, w_raw, w_search, w_cluster, w_subjects,
                   w_events, w_out>>

\* watcher_node 319-395: one pass of the loop over raw_results
W_Item ==
    /\ w_pc = "loop"
    /\ w_idx <= Len(w_raw)
    /\ LET item == w_raw[w_idx]
           r == AnalyzeItem(item, w_idx)
       IN  /\ w_articles' = IF r.skip THEN w_articles ELSE Append(w_articles, r.article)
           /\ w_calls' = IF CallsProvider(item)
                         THEN Append(w_calls, Call("analyze", 1, item.llm # "error"))
                         ELSE w_calls
    /\ w_idx' = w_idx + 1
    /\ UNCHANGED <<ovars, svars, othervars, w_pc, w_raw, w_search, w_cluster, w_subjects,
                   w_events, w_out>>

\* watcher_node 397-401: the sort between two emits
W_Sort ==
    /\ w_pc = "loop"
    /\ w_idx > Len(w_raw)
    /\ LET e1 == EmitAll(w_events, <<STEP_CROSS_REFERENCING>>)
           e2 == EmitAll(e1.events, <<STEP_EVALUATING>>)
       IN  IF e1.raised
           THEN w_events' = e1.events /\ w_pc' = "raised" /\ UNCHANGED w_articles
           ELSE /\ w_articles' = SortByExposure(w_articles)
                /\ w_events' = e2.events
                /\ w_pc' = IF e2.raised THEN "raised" ELSE "cluster"
    /\ UNCHANGED <<ovars, svars, othervars, w_raw, w_search, w_cluster, w_idx, w_subjects,
                   w_calls, w_out>>

\* watcher_node 403-440: clustering or grouping, the subject sort, the return
W_Cluster ==
    /\ w_pc = "cluster"
    /\ w_subjects' = BuildSubjects(w_articles, w_cluster)
    /\ w_calls' = IF Len(w_articles) > 1
                  THEN Append(w_calls, Call("cluster", 1, w_cluster.ok))
                  ELSE w_calls
    /\ LET e == EmitAll(w_events, <<STEP_COMPILING>>)
       IN  /\ w_events' = e.events
           /\ IF e.raised
              THEN w_pc' = "raised" /\ UNCHANGED <<w_out, w_out_ids>>
              ELSE /\ w_out' = WatcherOutput(w_articles, w_subjects')
                   /\ w_out_ids' = w_ident
                   /\ w_pc' = "returned"
    /\ UNCHANGED <<ovars, svars, callvars, w_raw, w_search, w_cluster, w_idx, w_articles,
                   w_on_step, w_state, w_ident, w_uuid, w_issued>>

\* the caller calls watcher_node again (main.py 54, server.py 56 and 80:
\* one call per run or request)
CallAgain ==
    /\ w_pc \in {"returned", "raised"}
    /\ w_uuid < MaxRuns
    /\ w_issued' = w_issued \cup {w_ident.crisis_id}
    /\ w_state' \in InputStates(w_issued')
    /\ w_search' \in {"ok", "raises", "not_configured"}
    /\ w_raw' = IF w_search' = "ok" THEN <<FallbackRawItem>> ELSE <<>>
    /\ w_pc' = "start"
    /\ w_idx' = 0
    /\ w_articles' = <<>>
    /\ w_subjects' = <<>>
    /\ w_events' = <<>>
    /\ w_calls' = <<>>
    /\ w_out' = NoResult
    /\ w_ident' = NoIds
    /\ w_out_ids' = NoIds
    /\ UNCHANGED <<ovars, svars, callvars, w_cluster, w_on_step, w_uuid>>

----------------------------------------------------------------------------
(* The progress stream: server.py _search_stream_generator, step by step.
   A worker thread runs watcher_node with on_step = event_queue.put and the
   generator reads the queue and yields server-sent events. *)

\* Queue(): maxsize 0, an unbounded queue
QUEUE_MAXSIZE == 0

PutBlocksWhenOne(q) == Len(q) >= 1
\* Queue.put blocks only while a bounded queue is full
PutBlocks(q) == QUEUE_MAXSIZE > 0 /\ Len(q) >= QUEUE_MAXSIZE

DequeueLast(q) == [msg |-> q[Len(q)], rest |-> SubSeq(q, 1, Len(q) - 1)]
\* Queue.get: first in, first out
Dequeue(q) == [msg |-> Head(q), rest |-> Tail(q)]

Msg(type, payload) == [type |-> type, payload |-> payload]

\* the text the generator yields: "event: <event>\ndata: <data>\n\n"
SseEvent(event, data) == [event |-> event, data |-> data]

\* the steps one call of watcher_node emits, by how the search went
WatcherSteps(search, found) ==
    IF search = "raises" THEN <<STEP_INITIALIZING>>
    ELSE IF search = "not_configured" \/ ~found
         THEN <<STEP_INITIALIZING, STEP_SCANNING, STEP_COMPILING>>
         ELSE StepOrder

\* the runs of watcher_node the worker can make
WatcherRuns ==
    { [steps |-> WatcherSteps(search, found),
       fate  |-> IF search = "raises" THEN "raises" ELSE "returns"] :
      search \in {"ok", "raises", "not_configured"}, found \in BOOLEAN }

\* ex.submit(run_watcher): the worker thread starts
ST_WorkerStart ==
    /\ st_wpc = "submitted"
    /\ st_wpc' = "watcher"
    /\ UNCHANGED <<notStream, st_steps, st_fate, st_next, st_queue,
                   st_cpc, st_out>>

\* on_step(step_id), called from _emit inside watcher_node
ST_OnStep ==
    /\ st_wpc = "watcher"
    /\ st_next <= Len(st_steps)
    /\ ~PutBlocks(st_queue)
    /\ st_queue' = Append(st_queue, Msg("step", st_steps[st_next]))
    /\ st_next' = st_next + 1
    /\ UNCHANGED <<notStream, st_steps, st_fate, st_wpc, st_cpc, st_out>>

\* watcher_node returned: event_queue.put(("result", ...))
ST_PutResult ==
    /\ st_wpc = "watcher"
    /\ st_next > Len(st_steps)
    /\ st_fate = "returns"
    /\ ~PutBlocks(st_queue)
    /\ st_queue' = Append(st_queue, Msg("result", "subjects"))
    /\ st_wpc' = "finally"
    /\ UNCHANGED <<notStream, st_steps, st_fate, st_next, st_cpc, st_out>>

\* except Exception as e: event_queue.put(("error", str(e)))
ST_PutError ==
    /\ st_wpc = "watcher"
    /\ st_next > Len(st_steps)
    /\ st_fate = "raises"
    /\ ~PutBlocks(st_queue)
    /\ st_queue' = Append(st_queue, Msg("error", "exception"))
    /\ st_wpc' = "finally"
    /\ UNCHANGED <<notStream, st_steps, st_fate, st_next, st_cpc, st_out>>

\* finally: event_queue.put(("done", None))
ST_PutDone ==
    /\ st_wpc = "finally"
    /\ ~PutBlocks(st_queue)
    /\ st_queue' = Append(st_queue, Msg("done", "None"))
    /\ st_wpc' = "finished"
    /\ UNCHANGED <<notStream, st_steps, st_fate, st_next, st_cpc, st_out>>

\* one step of the worker thread
ST_Worker == ST_WorkerStart \/ ST_OnStep \/ ST_PutResult \/ ST_PutError \/ ST_PutDone

\* one turn of the while loop in which event_queue.get returned in time
ST_Get ==
    /\ st_cpc = "reading"
    /\ st_queue # <<>>
    /\ LET got == Dequeue(st_queue)
           msg == got.msg
       IN /\ st_queue' = got.rest
          /\ st_out' = CASE msg.type = "done"   -> st_out
                         [] msg.type = "step"   ->
                                Append(st_out, SseEvent("step", msg.payload))
                         [] msg.type = "result" ->
                                Append(st_out, SseEvent("result", msg.payload))
                         [] msg.type = "error"  ->
                                Append(st_out, SseEvent("error", msg.payload))
          /\ st_cpc' = IF msg.type = "step" THEN "reading" ELSE "closed"
    /\ UNCHANGED <<notStream, st_steps, st_fate, st_wpc, st_next>>

\* asyncio.TimeoutError: nothing arrived for 300 seconds
ST_Timeout ==
    /\ st_cpc = "reading"
    /\ st_queue = <<>>
    /\ st_out' = Append(st_out, SseEvent("error", "timeout"))
    /\ st_cpc' = "closed"
    /\ UNCHANGED <<notStream, st_steps, st_fate, st_wpc, st_next, st_queue>>

\* the client goes away: the generator is closed where it is suspended
ST_Disconnect ==
    /\ st_cpc = "reading"
    /\ st_cpc' = "disconnected"
    /\ UNCHANGED <<notStream, st_steps, st_fate, st_wpc, st_next, st_queue,
                   st_out>>

----------------------------------------------------------------------------
(* One call of strategist_node / strategist_from_data, step by step. *)

\* what a draft field of Agent4Output can hold: nothing, blanks, a text
DraftTexts == {"", " ", "text"}

\* the four drafts: press_release, internal_email, social_post,
\* legal_notice_draft
DraftFields == 1..4

NoLlm4 == [kind |-> "not_configured"]
LlmFails4 == [kind |-> "fails"]
LlmOutput4(alert, recommended, drafts) ==
    [kind |-> "output", alert_level |-> alert,
     recommended_strategy |-> recommended, drafts |-> drafts]

\* what the provider can do in one call
StrategistProviderAnswers ==
    {NoLlm4, LlmFails4}
    \cup {LlmOutput4("MEDIUM", name, drafts) :
            name \in {"", "Diplomate"}, drafts \in [DraftFields -> DraftTexts]}

\* [d for d in [...] if d and d.strip()]
KeptDrafts(output) == {i \in DraftFields : output.drafts[i] \notin {"", " "}}

DraftsCount(output) == Cardinality(KeptDrafts(output))

SuccessOneDraft(output) == output.recommended_strategy # "" /\ DraftsCount(output) >= 1
\* success = bool(recommended_name and drafts_count >= 2)
Success(output) == output.recommended_strategy # "" /\ DraftsCount(output) >= 2

\* the signal emit_agent4_signal builds
StrategySignal(output) ==
    [event_name |-> "crisis_strategy_delivered",
     recommended_strategy |-> output.recommended_strategy,
     assets_drafted |-> DraftsCount(output)]

\* _run_strategist 171-206: the prompt is built; without an LLM it raises
A4_Enter ==
    /\ a4_pc = "start"
    /\ a4_pc' = IF a4_llm.kind = "not_configured" THEN "except" ELSE "llm"
    /\ UNCHANGED <<notA4, a4_entry, a4_customer_id, a4_crisis_id, a4_llm, a4_sdk,
                   a4_signals, a4_out>>

\* _run_strategist 210: _retry_llm returns the output or raises
A4_Llm ==
    /\ a4_pc = "llm"
    /\ a4_pc' = IF a4_llm.kind = "fails" THEN "except" ELSE "decide"
    /\ UNCHANGED <<notA4, a4_entry, a4_customer_id, a4_crisis_id, a4_llm, a4_sdk,
                   a4_signals, a4_out>>

EmitDue == Success(a4_llm) /\ a4_customer_id # "" /\ a4_crisis_id # ""

\* _run_strategist 236-243: emit_agent4_signal builds and sends the signal
A4_EmitSignal ==
    /\ a4_pc = "decide"
    /\ EmitDue
    /\ a4_sdk
    /\ a4_signals' = Append(a4_signals, StrategySignal(a4_llm))
    /\ a4_pc' = "return"
    /\ UNCHANGED <<notA4, a4_entry, a4_customer_id, a4_crisis_id, a4_llm, a4_sdk, a4_out>>

\* the same call when Signal is None: _build_signal raises
A4_EmitRaises ==
    /\ a4_pc = "decide"
    /\ EmitDue
    /\ ~a4_sdk
    /\ a4_pc' = "except"
    /\ UNCHANGED <<notA4, a4_entry, a4_customer_id, a4_crisis_id, a4_llm, a4_sdk,
                   a4_signals, a4_out>>

\* _run_strategist 236: the condition is false, nothing is emitted
A4_NoEmit ==
    /\ a4_pc = "decide"
    /\ ~EmitDue
    /\ a4_pc' = "return"
    /\ UNCHANGED <<notA4, a4_entry, a4_customer_id, a4_crisis_id, a4_llm, a4_sdk,
                   a4_signals, a4_out>>

\* _run_strategist 245-250
A4_Return ==
    /\ a4_pc = "return"
    /\ a4_out' = Agent4Ok(a4_llm.alert_level, a4_llm.recommended_strategy,
                          DraftsCount(a4_llm))
    /\ a4_pc' = "done"
    /\ UNCHANGED <<notA4, a4_entry, a4_customer_id, a4_crisis_id, a4_llm, a4_sdk,
                   a4_signals>>

\* the except branch of strategist_node 158-168 / strategist_from_data 280-289
A4_Except ==
    /\ a4_pc = "except"
    /\ a4_out' = Agent4Failed
    /\ a4_pc' = "done"
    /\ UNCHANGED <<notA4, a4_entry, a4_customer_id, a4_crisis_id, a4_llm, a4_sdk,
                   a4_signals>>

----------------------------------------------------------------------------
(* One call of precedents_node / precedents_node_from_topic, step by step. *)

\* a HistoricalCrisis as far as the pipeline looks at it; success_score is
\* validated by the schema (ge=1, le=10), source_url defaults to ""
HistoricalCrisis(company, source_url, success_score) ==
    [company |-> company, source_url |-> source_url, success_score |-> success_score]

CaseSourced == HistoricalCrisis("Acme", "https://news.example/acme", 7)
CaseNoUrl == HistoricalCrisis("Globex", "", 1)
CaseBlankCompany == HistoricalCrisis(" ", "", 10)

\* past_cases of the extraction output (min_length 1)
ExtractedCaseLists ==
    { <<CaseSourced>>, <<CaseNoUrl>>, <<CaseSourced, CaseNoUrl>>,
      <<CaseNoUrl, CaseBlankCompany>>, <<CaseSourced, CaseSourced, CaseNoUrl>> }

\* confidence: str, so the provider can answer a label of its own
ProviderConfidences == Confidences \cup {"unsure"}

\* _run_grounded_research: it raises, or returns the three texts (their
\* lengths) and the number of unique grounding sources
ResearchRaises == [kind |-> "raises"]
ResearchFound(lengths, sources) ==
    [kind |-> "found", lengths |-> lengths, sources |-> sources]

ResearchLengths ==
    { <<50, 50, 50>>, <<250, 0, 0>>, <<1000, 1000, 999>>, <<1000, 1000, 1000>>,
      <<4000, 3000, 2999>>, <<4000, 3000, 3000>> }

ResearchSourceCounts == {0, 3, 4, 9, 10}

ResearchAnswers ==
    {ResearchRaises}
    \cup {ResearchFound(l, n) : l \in ResearchLengths, n \in ResearchSourceCounts}

ExtractNotConfigured == [kind |-> "not_configured"]
ExtractFails == [kind |-> "fails"]
Agent2Output(past_cases, confidence) ==
    [kind |-> "output", past_cases |-> past_cases, confidence |-> confidence]

ExtractAnswers ==
    {ExtractNotConfigured, ExtractFails}
    \cup {Agent2Output(c, conf) : c \in ExtractedCaseLists, conf \in ProviderConfidences}

\* the verification call: llm_flash missing, the call raising, or a reply.
\* The reply is its upper-cased text as the words the code looks for: the
\* case markers and the two labels
VerifySkipped == [kind |-> "skipped", text |-> <<>>]
VerifyRaises == [kind |-> "raises", text |-> <<>>]
VerifyText(text) == [kind |-> "text", text |-> text]

\* marker = f"CASE {i+1}"
Marker == <<"CASE 1", "CASE 2", "CASE 3">>

VerifyTexts ==
    { <<"VERIFIED">>,
      <<"CASE 1", "VERIFIED", "CASE 2", "VERIFIED">>,
      <<"CASE 1", "FABRICATED">>,
      <<"CASE 1", "VERIFIED", "CASE 2", "FABRICATED">>,
      <<"CASE 2", "FABRICATED", "CASE 1", "VERIFIED">>,
      <<"CASE 1", "FABRICATED", "CASE 2", "FABRICATED">>,
      <<"CASE 1", "FABRICATED", "CASE 2", "FABRICATED", "CASE 3", "FABRICATED">>,
      <<"FABRICATED", "CASE 1">> }

VerifyAnswers ==
    {VerifySkipped, VerifyRaises} \cup {VerifyText(t) : t \in VerifyTexts}

\* marker in verify_text and
\* "FABRICATED" in verify_text.split(marker)[-1].split("CASE")[0]:
\* the label stands after the last occurrence of the marker and before the
\* next word CASE
FlaggedCase(text, i) ==
    \E p \in 1..Len(text) :
        /\ text[p] = Marker[i]
        /\ \A q \in (p + 1)..Len(text) : text[q] # Marker[i]
        /\ \E f \in (p + 1)..Len(text) :
              /\ text[f] = "FABRICATED"
              /\ \A q \in (p + 1)..(f - 1) : text[q] \notin Range(Marker)

\* all(len(v) < 100 for v in research.values())
MinimalResearch(research) == \A i \in 1..3 : research.lengths[i] < 100

\* total_chars = sum(len(v) for v in research.values())
TotalChars(research) == research.lengths[1] + research.lengths[2] + research.lengths[3]

\* source-quality confidence (node.py 585-591, 706-712)
SourceConfidence(total_chars, num_sources) ==
    IF total_chars >= 10000 /\ num_sources >= 10 THEN "high"
    ELSE IF total_chars >= 3000 /\ num_sources >= 4 THEN "medium"
    ELSE "low"

\* confidence_rank.get(label, 1)
ConfidenceRank(label) ==
    CASE label = "low" -> 0
      [] label = "medium" -> 1
      [] label = "high" -> 2
      [] OTHER -> 1

ConfidenceLabel(rank) == IF rank = 0 THEN "low" ELSE IF rank = 1 THEN "medium" ELSE "high"

\* min of the two ranks, as a label
FinalConfidence(a, b) == ConfidenceLabel(Min(ConfidenceRank(a), ConfidenceRank(b)))

\* the verification step without the keep-the-originals branch
AfterVerificationKeepsVerifiedOnly(output, verify) ==
    LET n == Len(output.past_cases)
        keep == {i \in 1..n : ~FlaggedCase(verify.text, i)}
        kept == SelectSeq([i \in 1..n |-> [idx |-> i, c |-> output.past_cases[i]]],
                          LAMBDA x : x.idx \in keep)
        verified_cases == [i \in 1..Len(kept) |-> kept[i].c]
    IN  IF verify.kind # "text" \/ "FABRICATED" \notin Range(verify.text) THEN output
        ELSE Agent2Output(verified_cases,
                          IF Len(verified_cases) = n THEN output.confidence
                          ELSE "medium")

\* _extract_and_verify 456-485: the cases kept and the confidence after the
\* verification text has been read
AfterVerification(output, verify) ==
    LET n == Len(output.past_cases)
        keep == {i \in 1..n : ~FlaggedCase(verify.text, i)}
        kept == SelectSeq([i \in 1..n |-> [idx |-> i, c |-> output.past_cases[i]]],
                          LAMBDA x : x.idx \in keep)
        verified_cases == [i \in 1..Len(kept) |-> kept[i].c]
    IN  IF verify.kind # "text" \/ "FABRICATED" \notin Range(verify.text) THEN output
        ELSE IF verified_cases # <<>>
             THEN Agent2Output(verified_cases,
                               IF Len(verified_cases) = n THEN output.confidence
                               ELSE "medium")
             ELSE Agent2Output(output.past_cases, "low")

\* company_lower.split()[0] raises IndexError on a blank company
MatchRaises(cases) == \E i \in 1..Len(cases) :
    cases[i].source_url = "" /\ cases[i].company = " "

\* _match_sources_to_cases: a case without source_url gets the url of a
\* source or a search url
MatchSourcesToCases(cases) ==
    [i \in 1..Len(cases) |->
        IF cases[i].source_url # "" THEN cases[i]
        ELSE [cases[i] EXCEPT !.source_url = "https://www.google.com/search?q="]]

PrecedentsSignal(cases_found, cost) ==
    [event_name |-> "historical_precedents_extracted",
     cases_found |-> cases_found, api_compute_cost_eur |-> cost]

\* the dict of the full path: the cases as dicts
Agent2Full(entry, cases, conf) ==
    [Agent2Ok(entry, Len(cases), conf) EXCEPT !.precedents = cases]

\* step 2.2: _run_grounded_research
P_Research ==
    /\ p_pc = "start"
    /\ p_pc' = IF p_research.kind = "raises" THEN "except"
               ELSE IF MinimalResearch(p_research) THEN "minimal"
               ELSE "extract"
    /\ UNCHANGED <<notP, p_entry, p_sdk, p_research, p_extract, p_verify, p_output,
                   p_signals, p_out>>

\* _run_pipeline 561-576 / from_topic 692-699: nothing found
P_Minimal ==
    /\ p_pc = "minimal"
    /\ IF p_entry = "main" /\ ~p_sdk
       THEN p_pc' = "except" /\ UNCHANGED <<p_signals, p_out>>
       ELSE /\ p_signals' = IF p_entry = "main"
                            THEN Append(p_signals, PrecedentsSignal(0, AGENT2_COST_SEARCHES))
                            ELSE p_signals
            /\ p_out' = Agent2Minimal(p_entry)
            /\ p_pc' = "returned_minimal"
    /\ UNCHANGED <<notP, p_entry, p_sdk, p_research, p_extract, p_verify, p_output>>

\* _extract_and_verify 429-446: the extraction call
P_Extract ==
    /\ p_pc = "extract"
    /\ IF p_extract.kind = "output"
       THEN p_output' = p_extract /\ p_pc' = "verify"
       ELSE p_pc' = "except" /\ UNCHANGED p_output
    /\ UNCHANGED <<notP, p_entry, p_sdk, p_research, p_extract, p_verify,
                   p_signals, p_out>>

\* _extract_and_verify 448-488: the verification call
P_Verify ==
    /\ p_pc = "verify"
    /\ p_output' = AfterVerification(p_output, p_verify)
    /\ p_pc' = "match"
    /\ UNCHANGED <<notP, p_entry, p_sdk, p_research, p_extract, p_verify,
                   p_signals, p_out>>

\* _extract_and_verify 490-497: sources are matched when there are any
P_Match ==
    /\ p_pc = "match"
    /\ IF p_research.sources = 0
       THEN p_pc' = "confidence" /\ UNCHANGED p_output
       ELSE IF MatchRaises(p_output.past_cases)
            THEN p_pc' = "except" /\ UNCHANGED p_output
            ELSE /\ p_output' = Agent2Output(MatchSourcesToCases(p_output.past_cases),
                                             p_output.confidence)
                 /\ p_pc' = "confidence"
    /\ UNCHANGED <<notP, p_entry, p_sdk, p_research, p_extract, p_verify,
                   p_signals, p_out>>

\* _run_pipeline 584-604 / from_topic 705-718
P_Confidence ==
    /\ p_pc = "confidence"
    /\ p_output' = Agent2Output(
                     p_output.past_cases,
                     FinalConfidence(p_output.confidence,
                                     SourceConfidence(TotalChars(p_research),
                                                      p_research.sources)))
    /\ p_pc' = "emit"
    /\ UNCHANGED <<notP, p_entry, p_sdk, p_research, p_extract, p_verify,
                   p_signals, p_out>>

\* _run_pipeline 618-632 / from_topic 732-739: the signal (precedents_node
\* only) and the return
P_Return ==
    /\ p_pc = "emit"
    /\ IF p_entry = "main" /\ ~p_sdk
       THEN p_pc' = "except" /\ UNCHANGED <<p_signals, p_out>>
       ELSE /\ p_signals' = IF p_entry = "main"
                            THEN Append(p_signals,
                                        PrecedentsSignal(Len(p_output.past_cases),
                                                         AGENT2_COST_FULL))
                            ELSE p_signals
            /\ p_out' = Agent2Full(p_entry, p_output.past_cases, p_output.confidence)
            /\ p_pc' = "returned_full"
    /\ UNCHANGED <<notP, p_entry, p_sdk, p_research, p_extract, p_verify, p_output>>

\* the except branch of precedents_node 518-537 (which emits a signal
\* first) and of precedents_node_from_topic 741-750 (which does not)
P_Except ==
    /\ p_pc = "except"
    /\ IF p_entry = "main" /\ ~p_sdk
       THEN p_pc' = "raised" /\ UNCHANGED <<p_signals, p_out>>
       ELSE /\ p_signals' = IF p_entry = "main"
                            THEN Append(p_signals, PrecedentsSignal(0, 0))
                            ELSE p_signals
            /\ p_out' = Agent2Error(p_entry)
            /\ p_pc' = "returned_error"
    /\ UNCHANGED <<notP, p_entry, p_sdk, p_research, p_extract, p_verify, p_output>>

----------------------------------------------------------------------------
(* The specifications *)

OrchestratorIdle ==
    /\ driver = "none"
    /\ skip_agent2 = FALSE
    /\ pc = "idle"
    /\ stage = IdleStages
    /\ ret = NoReturns
    /\ articles = <<>>
    /\ result2 = NoResult
    /\ result3 = NoResult
    /\ result4 = NoResult
    /\ strat_in = NoResult
    /\ invoice = NoResult
    /\ report = NoResult
    /\ outage = {}

ScorerIdle ==
    /\ sc_pc = "idle"
    /\ sc_in = <<>>
    /\ sc_resp = <<>>
    /\ sc_task = <<>>
    /\ sc_result = <<>>
    /\ sc_enriched = <<>>
    /\ sc_max_sev = 0
    /\ sc_total = 0
    /\ sc_out = NoResult

\* no call of watcher_node has been made in the process
FirstCall ==
    /\ w_ident = NoIds
    /\ w_out_ids = NoIds
    /\ w_uuid = 0
    /\ w_issued = {}

WatcherIdle ==
    /\ w_pc = "idle"
    /\ w_raw = <<>>
    /\ w_search = "ok"
    /\ w_cluster = ClusterFail
    /\ w_idx = 0
    /\ w_articles = <<>>
    /\ w_subjects = <<>>
    /\ w_events = <<>>
    /\ w_calls = <<>>
    /\ w_out = NoResult
    /\ w_on_step = OnStepNeverRaises
    /\ w_state = CompanyOnly
    /\ FirstCall

StreamIdle ==
    /\ st_steps = <<>>
    /\ st_fate = "returns"
    /\ st_wpc = "idle"
    /\ st_next = 1
    /\ st_queue = <<>>
    /\ st_cpc = "idle"
    /\ st_out = <<>>

StrategistIdle ==
    /\ a4_pc = "idle"
    /\ a4_entry = "node"
    /\ a4_customer_id = ""
    /\ a4_crisis_id = ""
    /\ a4_llm = NoLlm4
    /\ a4_sdk = TRUE
    /\ a4_signals = <<>>
    /\ a4_out = NoResult

PrecedentsIdle ==
    /\ p_pc = "idle"
    /\ p_entry = "main"
    /\ p_sdk = TRUE
    /\ p_research = ResearchRaises
    /\ p_extract = ExtractFails
    /\ p_verify = VerifySkipped
    /\ p_output = NoResult
    /\ p_signals = <<>>
    /\ p_out = NoResult

\* the call-level models at rest
ParallelIdle ==
    /\ k_env = [GOOGLE_API_KEY |-> "", GOOGLE_API_KEY1 |-> ""]
    /\ GOOGLE_API_KEY = ""
    /\ GOOGLE_API_KEY1 = ""
    /\ k_pc = "idle"
    /\ k_articles = <<>>
    /\ k_a2 = "idle"
    /\ k_details = <<>>
    /\ k_a3 = {}
    /\ k_enriched = <<>>
    /\ k_calls = {}

RetryIdle ==
    /\ r_pc = "idle"
    /\ r_retries = 0
    /\ r_fn = <<>>
    /\ r_attempt = 0
    /\ r_calls = 0
    /\ r_sleeps = <<>>
    /\ r_out = NoResult

OthersIdle ==
    StreamIdle /\ StrategistIdle /\ PrecedentsIdle /\ ParallelIdle /\ RetryIdle

\* a run of main.py or of the web flow
Init == InitOrchestrator /\ ScorerIdle /\ WatcherIdle /\ OthersIdle

Next ==
    \/ CallWatcher
    \/ WatcherReturns
    \/ WatcherRaises
    \/ WatcherExceptionPropagates
    \/ MainAfterWatcher
    \/ MainNoArticles
    \/ MainSkipCallScorer
    \/ MainSkipAfterScorer
    \/ MainSubmit
    \/ \E s \in Workers : WorkerStart(s)
    \/ PrecedentsReturns
    \/ ScorerReturns
    \/ \E s \in Workers : MainCollect(s)
    \/ MainLeavePool
    \/ MainCallStrategist
    \/ StrategistReturns
    \/ MainSummary
    \/ ClientPostCrisis
    \/ ServerSubmit
    \/ ServerResult2
    \/ ServerResult3
    \/ ServerCallStrategist
    \/ ServerCallCfo
    \/ CfoReturns
    \/ ServerCallHijacker
    \/ HijackerReturns
    \/ ServerRespond

Spec == Init /\ [][Next]_vars

\* one call of scorer_node
InitScorer ==
    /\ OrchestratorIdle
    /\ WatcherIdle
    /\ OthersIdle
    /\ sc_in \in SeqUpTo(ScorerArticleSamples, MaxArticles)
    /\ sc_resp \in [1..Len(sc_in) -> ScorerAnswerSamples]
    /\ sc_pc = "start"
    /\ sc_task = [i \in 1..Len(sc_in) |-> "unsubmitted"]
    /\ sc_result = [i \in 1..Len(sc_in) |-> NoResult]
    /\ sc_enriched = <<>>
    /\ sc_max_sev = 0
    /\ sc_total = 0
    /\ sc_out = NoResult

NextScorer ==
    \/ SC_Empty
    \/ SC_Submit
    \/ \E i \in 1..Len(sc_in) : SC_TaskStart(i)
    \/ \E i \in 1..Len(sc_in) : SC_TaskFinish(i)
    \/ \E i \in 1..Len(sc_in) : SC_Collect(i)
    \/ SC_Aggregate
    \/ SC_Return

SpecScorer == InitScorer /\ [][NextScorer]_vars

\* scorer_node from the end of its as_completed loop: every task has
\* returned and been collected, here in input order
InitAggregate ==
    /\ OrchestratorIdle
    /\ WatcherIdle
    /\ OthersIdle
    /\ sc_in \in SeqUpTo(AggregateArticleSamples, MaxEnriched) \ {<<>>}
    /\ sc_resp \in [1..Len(sc_in) -> AggregateAnswerSamples]
    /\ sc_pc = "as_completed"
    /\ sc_task = [i \in 1..Len(sc_in) |-> "collected"]
    /\ sc_result = [i \in 1..Len(sc_in) |-> EnrichSingleArticle(sc_in[i], sc_resp[i])]
    /\ sc_enriched = sc_result
    /\ sc_max_sev = MaxSeverity(sc_enriched)
    /\ sc_total = 0
    /\ sc_out = NoResult

NextAggregate ==
    \/ SC_Aggregate
    \/ SC_Return

SpecAggregate == InitAggregate /\ [][NextAggregate]_vars

\* one call of scorer_node on more articles than the pool has workers, all
\* of one kind and answered by the fallback
InitFanOut ==
    /\ OrchestratorIdle
    /\ WatcherIdle
    /\ OthersIdle
    /\ sc_in \in SeqUpTo({AnalyzeItem(RawItem(TRUE, FALSE, "scored", "security_fraud",
                                              "negative", 5, 5, 48), 1).article},
                          MaxFanOut)
    /\ sc_resp = [i \in 1..Len(sc_in) |-> ProviderFail3]
    /\ sc_pc = "start"
    /\ sc_task = [i \in 1..Len(sc_in) |-> "unsubmitted"]
    /\ sc_result = [i \in 1..Len(sc_in) |-> NoResult]
    /\ sc_enriched = <<>>
    /\ sc_max_sev = 0
    /\ sc_total = 0
    /\ sc_out = NoResult

SpecFanOut == InitFanOut /\ [][NextScorer]_vars

\* the viral coefficients a provider may answer, times 100: the validated
\* range 0.5..3.0 and a margin on either side
ViralLow == 40
ViralHigh == 310
ViralAnswers ==
    {ProviderFail3}
    \cup {[ok |-> TRUE, topic |-> "security_fraud", viral |-> v] : v \in ViralLow..ViralHigh}

\* one call of scorer_node on at most one article, over all viral answers
InitViral ==
    /\ OrchestratorIdle
    /\ WatcherIdle
    /\ OthersIdle
    /\ sc_in \in SeqUpTo({AnalyzeItem(RawItem(TRUE, FALSE, "scored", "security_fraud",
                                              "negative", 5, 5, 48), 1).article},
                          1)
    /\ sc_resp \in [1..Len(sc_in) -> ViralAnswers]
    /\ sc_pc = "start"
    /\ sc_task = [i \in 1..Len(sc_in) |-> "unsubmitted"]
    /\ sc_result = [i \in 1..Len(sc_in) |-> NoResult]
    /\ sc_enriched = <<>>
    /\ sc_max_sev = 0
    /\ sc_total = 0
    /\ sc_out = NoResult

SpecViral == InitViral /\ [][NextScorer]_vars

\* one call of watcher_node
InitWatcher ==
    /\ OrchestratorIdle
    /\ ScorerIdle
    /\ OthersIdle
    /\ w_search \in {"ok", "raises", "not_configured"}
    /\ w_raw \in SeqUpTo(RawItemSamples, MaxRaw)
    /\ w_search # "ok" => w_raw = <<>>
    /\ w_cluster \in ClusterAnswers
    /\ w_on_step \in OnStepBehaviours
    /\ w_state = CompanyOnly
    /\ FirstCall
    /\ w_pc = "start"
    /\ w_idx = 0
    /\ w_articles = <<>>
    /\ w_subjects = <<>>
    /\ w_events = <<>>
    /\ w_calls = <<>>
    /\ w_out = NoResult

NextWatcher ==
    \/ W_Start
    \/ W_SearchRaises
    \/ W_SearchEmpty
    \/ W_SearchFound
    \/ W_Item
    \/ W_Sort
    \/ W_Cluster

SpecWatcher == InitWatcher /\ [][NextWatcher]_vars

\* the raw results and clustering answers the sort and the grouping of
\* watcher_node are checked with: longer result lists over fewer kinds of
\* result, and answers over up to four articles
GroupedRawSamples ==
    { RawItem(TRUE, FALSE, "scored", "security_fraud", "negative", 5, 5, 48),
      RawItem(TRUE, FALSE, "scored", "security_fraud", "negative", 4, 3, 48),
      RawItem(TRUE, FALSE, "error", "product_bug", "negative", 4, 3, NoDate) }

GroupedClusterAnswers ==
    ClusterAnswers
    \cup {[ok |-> TRUE, clusters |-> c] :
            c \in { << <<0, 1, 2, 3>> >>, << <<0, 1>>, <<2, 3>> >>,
                    << <<1, 0>>, <<2>>, <<3>> >> }}

\* one call of watcher_node on such a search answer
InitGrouped ==
    /\ OrchestratorIdle
    /\ ScorerIdle
    /\ OthersIdle
    /\ w_search \in {"ok", "raises", "not_configured"}
    /\ w_raw \in SeqUpTo(GroupedRawSamples, MaxGrouped)
    /\ w_search # "ok" => w_raw = <<>>
    /\ w_cluster \in GroupedClusterAnswers
    /\ w_on_step = OnStepNeverRaises
    /\ w_state = CompanyOnly
    /\ FirstCall
    /\ w_pc = "start"
    /\ w_idx = 0
    /\ w_articles = <<>>
    /\ w_subjects = <<>>
    /\ w_events = <<>>
    /\ w_calls = <<>>
    /\ w_out = NoResult

SpecGrouped == InitGrouped /\ [][NextWatcher]_vars

\* calls of watcher_node one after the other in one process, each on an
\* input state of its own
InitIdent ==
    /\ OrchestratorIdle
    /\ ScorerIdle
    /\ OthersIdle
    /\ w_search \in {"ok", "raises", "not_configured"}
    /\ w_raw = IF w_search = "ok" THEN <<FallbackRawItem>> ELSE <<>>
    /\ w_cluster = ClusterFail
    /\ w_on_step = OnStepNeverRaises
    /\ w_state \in InputStates({})
    /\ FirstCall
    /\ w_pc = "start"
    /\ w_idx = 0
    /\ w_articles = <<>>
    /\ w_subjects = <<>>
    /\ w_events = <<>>
    /\ w_calls = <<>>
    /\ w_out = NoResult

NextIdent == NextWatcher \/ CallAgain

SpecIdent == InitIdent /\ [][NextIdent]_vars

\* one request of POST /api/search/stream
InitStream ==
    /\ OrchestratorIdle
    /\ ScorerIdle
    /\ WatcherIdle
    /\ StrategistIdle
    /\ PrecedentsIdle
    /\ ParallelIdle
    /\ RetryIdle
    /\ \E run \in WatcherRuns : st_steps = run.steps /\ st_fate = run.fate
    /\ st_wpc = "submitted"
    /\ st_next = 1
    /\ st_queue = <<>>
    /\ st_cpc = "reading"
    /\ st_out = <<>>

NextStream ==
    \/ ST_WorkerStart
    \/ ST_OnStep
    \/ ST_PutResult
    \/ ST_PutError
    \/ ST_PutDone
    \/ ST_Get
    \/ ST_Timeout
    \/ ST_Disconnect

SpecStream == InitStream /\ [][NextStream]_vars

\* one call of strategist_node (ids from the state) or of
\* strategist_from_data (ids "")
InitStrategist ==
    /\ OrchestratorIdle
    /\ ScorerIdle
    /\ WatcherIdle
    /\ StreamIdle
    /\ PrecedentsIdle
    /\ ParallelIdle
    /\ RetryIdle
    /\ a4_entry \in {"node", "from_data"}
    /\ a4_customer_id \in {"", "acme"}
    /\ a4_crisis_id \in {"", "crisis-1"}
    /\ a4_entry = "from_data" => a4_customer_id = "" /\ a4_crisis_id = ""
    /\ a4_llm \in StrategistProviderAnswers
    /\ a4_sdk \in BOOLEAN
    /\ a4_pc = "start"
    /\ a4_signals = <<>>
    /\ a4_out = NoResult

NextStrategist ==
    \/ A4_Enter
    \/ A4_Llm
    \/ A4_EmitSignal
    \/ A4_EmitRaises
    \/ A4_NoEmit
    \/ A4_Return
    \/ A4_Except

SpecStrategist == InitStrategist /\ [][NextStrategist]_vars

\* one call of precedents_node ("main") or precedents_node_from_topic
\* ("server")
InitPrecedents ==
    /\ OrchestratorIdle
    /\ ScorerIdle
    /\ WatcherIdle
    /\ StreamIdle
    /\ StrategistIdle
    /\ ParallelIdle
    /\ RetryIdle
    /\ p_entry \in {"main", "server"}
    /\ p_sdk \in BOOLEAN
    /\ p_entry = "server" => p_sdk
    /\ p_research \in ResearchAnswers
    /\ p_extract \in ExtractAnswers
    /\ p_verify \in VerifyAnswers
    /\ p_pc = "start"
    /\ p_output = NoResult
    /\ p_signals = <<>>
    /\ p_out = NoResult

NextPrecedents ==
    \/ P_Research
    \/ P_Minimal
    \/ P_Extract
    \/ P_Verify
    \/ P_Match
    \/ P_Confidence
    \/ P_Return
    \/ P_Except

SpecPrecedents == InitPrecedents /\ [][NextPrecedents]_vars


----------------------------------------------------------------------------
(* The parallel block of crisis_response (server.py 236-248) with the      *)
(* provider clients of clients/llm_client.py: the request thread submits   *)
(* precedents_node_from_topic and scorer_from_articles with the same list  *)
(* req.articles and joins both.                                            *)

\* the values an environment variable is configured with; "" is unset
KeyValues == {"", "key_a", "key_b"}

\* ChatGoogleGenerativeAI(google_api_key=key) if key else None
Client(key) == [none |-> key = "", google_api_key |-> key]

llm_flash == Client(GOOGLE_API_KEY)
llm_pro == Client(GOOGLE_API_KEY)
llm_flash_alt == Client(GOOGLE_API_KEY1)

ProviderCall(agent, key) == [agent |-> agent, key |-> key]

\* llm_client.py 21-42, run once when the module is first imported:
\* GOOGLE_API_KEY1 = os.getenv("GOOGLE_API_KEY1") or GOOGLE_API_KEY
K_Import ==
    /\ k_pc = "import"
    /\ GOOGLE_API_KEY' = k_env.GOOGLE_API_KEY
    /\ GOOGLE_API_KEY1' = IF k_env.GOOGLE_API_KEY1 # ""
                          THEN k_env.GOOGLE_API_KEY1
                          ELSE k_env.GOOGLE_API_KEY
    /\ k_pc' = "ready"
    /\ UNCHANGED <<notK, k_env, k_articles, k_a2, k_details, k_a3, k_enriched, k_calls>>

\* server.py 237-245: both calls are submitted to the pool of two workers
K_Submit ==
    /\ k_pc = "ready"
    /\ k_pc' = "parallel"
    /\ k_a2' = "build"
    /\ UNCHANGED <<notK, k_env, GOOGLE_API_KEY, GOOGLE_API_KEY1, k_articles,
                   k_details, k_a3, k_enriched, k_calls>>

\* sev = a.get("severity_score") or a.get("severityScore") or 3, clamped
DetailSeverity(a) ==
    LET sev == DictGet(a, "severity_score", 0)
    IN  Min(Max(IF sev = 0 THEN 3 ELSE sev, 1), 5)

\* precedents_node_from_topic 656-666: one ArticleDetail per article
K_Agent2Build ==
    /\ k_a2 = "build"
    /\ k_details' = [i \in 1..Len(k_articles) |->
                        [severity_score |-> DetailSeverity(k_articles[i]),
                         subject |-> DictGet(k_articles[i], "subject", "")]]
    /\ k_a2' = "research"
    /\ UNCHANGED <<notK, k_env, GOOGLE_API_KEY, GOOGLE_API_KEY1, k_pc, k_articles,
                   k_a3, k_enriched, k_calls>>

\* _run_grounded_research 227-232: raises without GOOGLE_API_KEY (the call
\* then returns its error dict), else searches with that key
K_Agent2Research ==
    /\ k_a2 = "research"
    /\ IF GOOGLE_API_KEY = ""
       THEN /\ k_a2' = "returned_error"
            /\ UNCHANGED k_calls
       ELSE /\ k_calls' = k_calls \cup {ProviderCall("agent2", GOOGLE_API_KEY)}
            /\ k_a2' = "researched"
    /\ UNCHANGED <<notK, k_env, GOOGLE_API_KEY, GOOGLE_API_KEY1, k_pc, k_articles,
                   k_details, k_a3, k_enriched>>

\* precedents_node_from_topic 691-698: every search came back minimal
K_Agent2Minimal ==
    /\ k_a2 = "researched"
    /\ k_a2' = "returned_minimal"
    /\ UNCHANGED <<notK, k_env, GOOGLE_API_KEY, GOOGLE_API_KEY1, k_pc, k_articles,
                   k_details, k_a3, k_enriched, k_calls>>

\* _extract_and_verify 428-465: extraction with llm_pro, then the
\* verification with llm_flash
K_Agent2Extract ==
    /\ k_a2 = "researched"
    /\ ~llm_pro.none
    /\ k_calls' = k_calls \cup {ProviderCall("agent2", llm_pro.google_api_key),
                                ProviderCall("agent2", llm_flash.google_api_key)}
    /\ k_a2' = "returned_full"
    /\ UNCHANGED <<notK, k_env, GOOGLE_API_KEY, GOOGLE_API_KEY1, k_pc, k_articles,
                   k_details, k_a3, k_enriched>>

\* _enrich_single_article on the i-th article in place: the derived fields
\* are written into the dict of the shared list
K_Agent3EnrichInPlace(i) ==
    /\ k_pc = "parallel"
    /\ i \notin k_a3
    /\ k_a3' = k_a3 \cup {i}
    /\ LET r == EnrichSingleArticle(k_articles[i], ProviderFail3)
       IN  IF r.raised
           THEN UNCHANGED <<k_articles, k_enriched>>
           ELSE /\ k_articles' =
                       [k_articles EXCEPT ![i].keys =
                           @ \cup {"reach_estimate", "churn_risk_percent",
                                   "value_at_risk"}]
                /\ k_enriched' = Append(k_enriched, [r EXCEPT !.art = k_articles'[i]])
    /\ UNCHANGED <<notK, k_env, GOOGLE_API_KEY, GOOGLE_API_KEY1, k_pc, k_a2,
                   k_details, k_calls>>

\* scorer_node 195-205 for the i-th article: _analyze_topic_and_viral calls
\* the provider through llm_flash_alt when it is configured (node.py 15,
\* 53-60) and _enrich_single_article returns {**art, ...}, which is appended
K_Agent3Enrich(i) ==
    /\ k_pc = "parallel"
    /\ i \notin k_a3
    /\ k_a3' = k_a3 \cup {i}
    /\ \E resp \in RunAnswers3 :
          LET r == EnrichSingleArticle(k_articles[i],
                                       IF llm_flash_alt.none THEN ProviderFail3 ELSE resp)
          IN  k_enriched' = IF r.raised THEN k_enriched ELSE Append(k_enriched, r)
    /\ k_calls' = IF llm_flash_alt.none \/ ~k_articles[i].wellformed
                  THEN k_calls
                  ELSE k_calls \cup {ProviderCall("agent3", llm_flash_alt.google_api_key)}
    /\ UNCHANGED <<notK, k_env, GOOGLE_API_KEY, GOOGLE_API_KEY1, k_pc, k_articles,
                   k_a2, k_details>>

\* server.py 247-248: both results are in
K_Join ==
    /\ k_pc = "parallel"
    /\ k_a2 \in {"returned_error", "returned_minimal", "returned_full"}
    /\ k_a3 = 1..Len(k_articles)
    /\ k_pc' = "joined"
    /\ UNCHANGED <<notK, k_env, GOOGLE_API_KEY, GOOGLE_API_KEY1, k_articles, k_a2,
                   k_details, k_a3, k_enriched, k_calls>>

InitParallel ==
    /\ OrchestratorIdle
    /\ ScorerIdle
    /\ WatcherIdle
    /\ StreamIdle
    /\ StrategistIdle
    /\ PrecedentsIdle
    /\ RetryIdle
    /\ k_env \in [GOOGLE_API_KEY : KeyValues, GOOGLE_API_KEY1 : KeyValues]
    /\ GOOGLE_API_KEY = ""
    /\ GOOGLE_API_KEY1 = ""
    /\ k_pc = "import"
    /\ k_articles \in SeqUpTo(ScorerArticleSamples, MaxArticles)
    /\ k_a2 = "idle"
    /\ k_details = <<>>
    /\ k_a3 = {}
    /\ k_enriched = <<>>
    /\ k_calls = {}

NextParallel ==
    \/ K_Import
    \/ K_Submit
    \/ K_Agent2Build
    \/ K_Agent2Research
    \/ K_Agent2Minimal
    \/ K_Agent2Extract
    \/ \E i \in 1..Len(k_articles) : K_Agent3Enrich(i)
    \/ K_Join

SpecParallel == InitParallel /\ [][NextParallel]_vars


----------------------------------------------------------------------------
(* _retry_llm, the retry helper of agent_2_precedents, agent_4_strategist  *)
(* and agent_6_hijacker (the three copies differ in the printed tag only). *)

MAX_LLM_RETRIES == 3

\* what one call of fn does
FnOutcomes == {"raise", "answer_a", "answer_b"}

RECURSIVE Pow2(_)
Pow2(n) == IF n = 0 THEN 1 ELSE 2 * Pow2(n - 1)

\* for attempt in range(1, retries + 1): the loop is entered
R_Enter ==
    /\ r_pc = "start"
    /\ r_attempt' = 1
    /\ r_pc' = IF r_retries >= 1 THEN "try" ELSE "after_loop"
    /\ UNCHANGED <<notR, r_retries, r_fn, r_calls, r_sleeps, r_out>>

\* try: return fn()
R_Call ==
    /\ r_pc = "try"
    /\ r_calls' = r_calls + 1
    /\ IF r_fn[r_calls'] = "raise"
       THEN /\ r_pc' = "except"
            /\ UNCHANGED r_out
       ELSE /\ r_pc' = "returned"
            /\ r_out' = [kind |-> "value", keys |-> {}, value |-> r_fn[r_calls']]
    /\ UNCHANGED <<notR, r_retries, r_fn, r_attempt, r_sleeps>>

\* the handler sleeping after every failed attempt, the last included
R_ExceptSleepsAlways ==
    /\ r_pc = "except"
    /\ r_sleeps' = Append(r_sleeps, Pow2(r_attempt))
    /\ IF r_attempt < r_retries
       THEN /\ r_attempt' = r_attempt + 1
            /\ r_pc' = "try"
       ELSE /\ r_pc' = "after_loop"
            /\ UNCHANGED r_attempt
    /\ UNCHANGED <<notR, r_retries, r_fn, r_calls, r_out>>

\* except Exception: time.sleep(2 ** attempt) if attempt < retries, then the
\* next iteration or the end of the loop
R_Except ==
    /\ r_pc = "except"
    /\ IF r_attempt < r_retries
       THEN /\ r_sleeps' = Append(r_sleeps, Pow2(r_attempt))
            /\ r_attempt' = r_attempt + 1
            /\ r_pc' = "try"
       ELSE /\ r_pc' = "after_loop"
            /\ UNCHANGED <<r_sleeps, r_attempt>>
    /\ UNCHANGED <<notR, r_retries, r_fn, r_calls, r_out>>

\* raise RuntimeError(...) after the loop
R_Raise ==
    /\ r_pc = "after_loop"
    /\ r_pc' = "raised"
    /\ r_out' = [kind |-> "RuntimeError", keys |-> {}, value |-> ""]
    /\ UNCHANGED <<notR, r_retries, r_fn, r_attempt, r_calls, r_sleeps>>

\* one call _retry_llm(fn, retries) with retries up to the default
InitRetry ==
    /\ OrchestratorIdle
    /\ ScorerIdle
    /\ WatcherIdle
    /\ StreamIdle
    /\ StrategistIdle
    /\ PrecedentsIdle
    /\ ParallelIdle
    /\ r_retries \in 1..MAX_LLM_RETRIES
    /\ r_fn \in [1..r_retries -> FnOutcomes]
    /\ r_pc = "start"
    /\ r_attempt = 0
    /\ r_calls = 0
    /\ r_sleeps = <<>>
    /\ r_out = NoResult

NextRetry ==
    \/ R_Enter
    \/ R_Call
    \/ R_Except
    \/ R_Raise

SpecRetry == InitRetry /\ [][NextRetry]_vars


----------------------------------------------------------------------------
(* Properties *)

\* C1: in every interleaving of the parallel block, Strategy Synthesis is
\* started only when Precedent Research and Risk Quantifier have both
\* returned, and what it is started with is what the two returned.
C1_StrategistAfterJoin ==
    (stage["strategist"] # "idle" /\ ~skip_agent2) =>
        /\ stage["precedents"] = "returned"
        /\ stage["scorer"] = "returned"
        /\ strat_in.precedents = ret["precedents"].precedents
        /\ strat_in.global_lesson = ret["precedents"].global_lesson
        /\ strat_in.confidence = ret["precedents"].confidence
        /\ strat_in.articles = ret["scorer"].articles
        /\ strat_in.total_var_impact = ret["scorer"].total_var_impact
        /\ strat_in.severity_score = ret["scorer"].severity_score

C1_Witness ==
    /\ stage["strategist"] = "running"
    /\ ~skip_agent2
    /\ Len(strat_in.precedents) = MaxCases
    /\ Len(strat_in.articles) >= 2
    /\ strat_in.articles = ret["scorer"].articles

\* C2: stages start in dependency order: Precedent Research and Risk
\* Quantifier are not started before Ingestion has returned, and Invoice
\* Builder is not started before Strategy Synthesis has returned.
C2_DependencyOrder ==
    /\ \A s \in Workers : stage[s] # "idle" => stage["watcher"] = "returned"
    /\ stage["cfo"] # "idle" => stage["strategist"] = "returned"

C2_Witness ==
    /\ stage["cfo"] = "running"
    /\ stage["watcher"] = "returned"
    /\ stage["precedents"] = "returned"
    /\ stage["scorer"] = "returned"
    /\ ret["watcher"].articles # <<>>

\* C3: whatever provider calls fail in Precedent Research, Risk Quantifier
\* and Strategy Synthesis, a run with at least one signal does not crash,
\* runs Invoice Builder and returns a complete report, whose confidence is
\* "low" when all provider calls failed.
C3_CompleteReportDespiteFailures ==
    articles # <<>> =>
        /\ pc # "crashed"
        /\ pc = "done" =>
              /\ stage["cfo"] = "returned"
              /\ report.kind = "report"
              /\ invoice # NoResult
              /\ outage = {"precedents", "scorer", "strategist"} =>
                    DictGet(report, "confidence", "") = "low"

\* C4: when Ingestion produces no signals the run ends without starting a
\* later stage and returns a partial report with an incomplete marker.
C4_EarlyTerminationWithMarker ==
    (pc = "done" /\ stage["watcher"] = "returned"
        /\ ret["watcher"].articles = <<>>) =>
        /\ \A s \in Stages \ {"watcher"} : stage[s] = "idle"
        /\ report # NoResult
        /\ "incomplete" \in report.keys

\* C5: a failing provider or search call never raises out of the entry
\* point of its stage (here watcher_node).
C5_StageNeverRaises == w_pc # "raised"

\* C6: every provider/search call that failed was retried up to the fixed
\* attempt count before its fallback was used.
C6_FailedCallsRetried ==
    \A i \in 1..Len(w_calls) :
        ~w_calls[i].ok => w_calls[i].attempts = MAX_LLM_RETRIES

\* C7: the order of the enriched list scorer_node returns does not depend
\* on the completion order of the worker tasks: it is the order obtained
\* when the tasks complete in input order.
C7_OrderIndependentOfCompletion ==
    sc_pc = "returned" =>
        sc_out.articles =
            ScorerNode(sc_in, sc_resp, [i \in 1..Len(sc_in) |-> i]).articles

\* C8: scorer_node returns exactly one enriched signal per input signal.
C8_OneEnrichedPerInput ==
    sc_pc = "returned" => Len(sc_out.articles) = Len(sc_in)

\* C9: the dedup-weighted total is computed only when every enrichment
\* task has completed and been collected, so it is the total over the
\* results of all tasks that did not raise.
C9_AggregationBarrier ==
    (sc_pc \in {"aggregated", "returned"} /\ sc_in # <<>>) =>
        /\ \A i \in 1..Len(sc_in) : sc_task[i] = "collected"
        /\ sc_total = TotalVarImpact(SelectSeq(sc_result, LAMBDA r : ~r.raised))

C9_Witness ==
    /\ sc_pc = "aggregated"
    /\ Len(sc_in) >= 2
    /\ Len(sc_enriched) >= 2
    /\ sc_total > 0

\* the positions in StepOrder of the steps emitted
StepIndex(step) == CHOOSE k \in 1..Len(StepOrder) : StepOrder[k] = step

\* C10 as stated: every run of watcher_node emits the six steps in order.
C10_SixStepsEveryRun ==
    w_pc \in {"returned", "raised"} => w_events = StepOrder

\* C10: the steps emitted are always in the fixed order with none
\* repeated; a run whose search returns items emits all six, a run whose
\* search returns nothing emits initializing, scanning_news and
\* compiling_results only, a run whose search raises emits initializing
\* only.
C10_StepsInFixedOrder ==
    /\ \A i \in 1..Len(w_events) : w_events[i] \in Range(StepOrder)
    /\ \A i, j \in 1..Len(w_events) :
          i < j => StepIndex(w_events[i]) < StepIndex(w_events[j])
    /\ (w_pc = "returned" /\ SearchResults # <<>>) => w_events = StepOrder
    /\ (w_pc = "returned" /\ SearchResults = <<>>) =>
          w_events = <<STEP_INITIALIZING, STEP_SCANNING, STEP_COMPILING>>
    /\ w_pc = "raised" => w_events = <<STEP_INITIALIZING>>

C10_Witness ==
    /\ w_pc = "returned"
    /\ w_events = StepOrder
    /\ Len(w_raw) = MaxRaw
    /\ w_articles # <<>>



\* ---- the progress stream ----

Terminal(e) == e.event \in {"result", "error"}

LastEvent == st_out[Len(st_out)]

StepEvents(out) == SelectSeq(out, LAMBDA e : e.event = "step")

\* the step ids the client has received, in the order received
DeliveredSteps(out) == [i \in 1..Len(StepEvents(out)) |-> StepEvents(out)[i].data]

\* the step ids the worker has emitted so far
EmittedSteps == SubSeq(st_steps, 1, st_next - 1)

IsPrefix(a, b) == Len(a) <= Len(b) /\ a = SubSeq(b, 1, Len(a))

StreamEndsWithOneTerminal ==
    /\ \A i \in 1..Len(st_out) : Terminal(st_out[i]) => i = Len(st_out)
    /\ st_cpc = "closed" => st_out # <<>> /\ Terminal(LastEvent)
    /\ st_cpc = "reading" => \A i \in 1..Len(st_out) : ~Terminal(st_out[i])
    /\ IsPrefix(DeliveredSteps(st_out), EmittedSteps)
    /\ (st_out # <<>> /\ LastEvent = SseEvent("result", "subjects"))
          => st_fate = "returns" /\ DeliveredSteps(st_out) = st_steps
    /\ (st_out # <<>> /\ LastEvent = SseEvent("error", "exception"))
          => st_fate = "raises" /\ DeliveredSteps(st_out) = st_steps

TerminalDelivered ==
    /\ Len(st_out') = Len(st_out) + 1
    /\ Terminal(st_out'[Len(st_out')])

C12_WorkerNeverBlocks == st_wpc # "finished" => ENABLED ST_Worker

\* the client went away before reading anything and the worker ran a full
\* six-step run to its end, everything it published still in the queue
C12_Witness ==
    /\ st_cpc = "disconnected"
    /\ st_out = <<>>
    /\ st_wpc = "finished"
    /\ st_steps = StepOrder
    /\ Len(st_queue) = Len(st_steps) + 2


\* ---- the invoice ----

InvoiceBuilt == stage["cfo"] = "returned"

BuiltInvoice == ret["cfo"].invoice

\* the alert label the invoice was built for (server.py 275-276)
InvoiceAlertLabel ==
    DictGet(DictGet(result4, "strategy_report", EmptyDict), "alert_level", "MEDIUM")

DISMISSED_LABELS == {"IGNORE", "SOFT"}

\* C13: the invoice has action_refused true and no line items exactly when
\* the alert label is IGNORE or SOFT (the Dismissed tier), then at the
\* Dismissed price; for every other label action_refused is false and there
\* is one line item per stage.
C13_RefusedExactlyWhenDismissed ==
    InvoiceBuilt =>
        IF InvoiceAlertLabel \in DISMISSED_LABELS
        THEN /\ BuiltInvoice.action_refused
             /\ BuiltInvoice.line_items = <<>>
             /\ BuiltInvoice.tier_price_eur = 99
        ELSE /\ ~BuiltInvoice.action_refused
             /\ Len(BuiltInvoice.line_items) = 3

\* the cost a stage's result reports: nothing when it carries no cost
ReportedCost(result, key) == IF key \in result.keys THEN result[key] ELSE 0

\* C14: the invoice's total_api_cost_eur is the sum of the costs the results
\* of Precedent Research, Risk Quantifier and Strategy Synthesis report; a
\* result that reports no cost adds nothing.
C14_TotalIsSumOfReportedCosts ==
    InvoiceBuilt =>
        BuiltInvoice.total_api_cost_eur =
            ReportedCost(result2, "agent2_api_cost_eur")
            + ReportedCost(result3, "agent3_api_cost_eur")
            + ReportedCost(result4, "agent4_api_cost_eur")

\* C15: an invoice that is not refused has roi_multiplier equal to
\* total_human_equivalent_eur / total_api_cost_eur (to one decimal), and 0
\* when total_api_cost_eur is 0.
C15_RoiIsHumanOverApi ==
    (InvoiceBuilt /\ ~BuiltInvoice.action_refused) =>
        BuiltInvoice.roi_multiplier =
            IF BuiltInvoice.total_api_cost_eur = 0 THEN 0
            ELSE RoundDiv(BuiltInvoice.total_human_equivalent_eur * 1000,
                          BuiltInvoice.total_api_cost_eur)


\* ---- the strategy billing signal ----

\* C16: a strategy billing signal is emitted only in a call whose provider
\* output has a non-empty recommended strategy and at least two non-blank
\* drafts, and at most once; a call that returns the failure result has
\* emitted none.
C16_SignalOnlyOnSuccess ==
    /\ Len(a4_signals) <= 1
    /\ a4_signals # <<>> =>
          /\ a4_llm.kind = "output"
          /\ a4_llm.recommended_strategy # ""
          /\ \E i, j \in DraftFields :
                /\ i # j
                /\ a4_llm.drafts[i] = "text"
                /\ a4_llm.drafts[j] = "text"
    /\ (a4_pc = "done" /\ a4_out = Agent4Failed) => a4_signals = <<>>

\* a call with exactly two non-blank drafts and a recommended strategy has
\* emitted its signal and returned
C16_Witness ==
    /\ a4_pc = "done"
    /\ Len(a4_signals) = 1
    /\ a4_signals[1].assets_drafted = 2
    /\ a4_out.recommended_strategy_name = "Diplomate"


\* ---- Precedent Research ----

PrecedentsReturned == p_pc \in {"returned_minimal", "returned_full", "returned_error"}

\* the three standard labels, lowest first
LabelAtMost(a, b) ==
    \/ a = "low"
    \/ a = "medium" /\ b \in {"medium", "high"}
    \/ a = "high" /\ b = "high"

\* the source-quality confidence as the claim states it
SourceQualityLabel ==
    IF p_research.sources >= 10 /\ TotalChars(p_research) >= 10000 THEN "high"
    ELSE IF p_research.sources >= 4 /\ TotalChars(p_research) >= 3000 THEN "medium"
    ELSE "low"

\* C17: when the full path returns and the provider reported one of the
\* three standard labels, the returned confidence is the lower of the
\* provider's self-reported confidence and the source-quality confidence:
\* never above either, also when the verification step removed cases.
C17_ConfidenceIsMinimum ==
    (p_pc = "returned_full" /\ p_extract.confidence \in Confidences) =>
        /\ LabelAtMost(p_out.confidence, p_extract.confidence)
        /\ LabelAtMost(p_out.confidence, SourceQualityLabel)
        /\ p_out.confidence \in {p_extract.confidence, SourceQualityLabel}

\* C18: after any failure inside the call, both entry points return an empty
\* case list, the fixed no-relevant-precedent lesson and confidence low, and
\* the call never raises to its caller, also when the failure handler's own
\* signal emission fails.
C18_FailureReturnsEmptyLowNeverRaises ==
    /\ p_pc # "raised"
    /\ p_pc = "returned_error" =>
          /\ p_out.precedents = <<>>
          /\ p_out.global_lesson =
                "No relevant historical precedents found for this crisis type."
          /\ p_out.confidence = "low"

\* C19: every case of a returned result has a non-empty source_url and a
\* success_score from 1 to 10, whatever the number of grounding sources.
C19_CasesHaveSourceAndScore ==
    PrecedentsReturned =>
        \A i \in 1..Len(p_out.precedents) :
            /\ p_out.precedents[i].source_url # ""
            /\ p_out.precedents[i].success_score \in 1..10


\* ---- Ingestion fallback ----

\* the raw item with index i got past the pre-filters and its provider call
\* failed
ProviderFailedFor(i) ==
    /\ w_raw[i].title_ok
    /\ ~w_raw[i].promo
    /\ w_raw[i].llm = "error"

IsFallbackArticle(a, i) ==
    /\ a.id = i
    /\ a.authority_score = 3
    /\ a.severity_score = 2
    /\ a.sentiment = "neutral"
    /\ a.subject = "ethics_management"

\* C20: every item whose provider call failed is kept, with authority 3,
\* severity 2, sentiment neutral and the default subject, once the loop has
\* passed it and in what watcher_node returns; also when the call fails
\* for every item.
C20_FailedItemKeptWithDefaults ==
    \A i \in 1..Len(w_raw) :
        (w_pc \in {"loop", "cluster", "returned"} /\ i < w_idx /\ ProviderFailedFor(i)) =>
            /\ \E k \in 1..Len(w_articles) : IsFallbackArticle(w_articles[k], i)
            /\ w_pc = "returned" =>
                  \E k \in 1..Len(w_out.articles) : IsFallbackArticle(w_out.articles[k], i)

\* the provider failed for both items of a run and both are returned
C20_Witness ==
    /\ w_pc = "returned"
    /\ Len(w_raw) = 2
    /\ \A i \in 1..2 : ProviderFailedFor(i)
    /\ Len(w_out.articles) = 2
    /\ \A k \in 1..2 : w_out.articles[k].authority_score = 3


\* ---- the portfolio total ----

\* the weights as the claim states them, times 10
ClaimedWeight(rank) == IF rank = 1 THEN 10 ELSE IF rank = 2 THEN 2 ELSE 1

\* the value_at_risk values of the enriched signals, greatest first
VarsDescending ==
    Items(SortPairsDesc([i \in 1..Len(sc_enriched) |->
                            <<sc_enriched[i].value_at_risk, sc_enriched[i].value_at_risk>>]))

PlainSum == SumSeq([i \in 1..Len(sc_enriched) |-> sc_enriched[i].value_at_risk])

Aggregated == sc_pc \in {"aggregated", "returned"}

\* the total is the weighted sum over the values taken greatest first
TotalIsWeightedSum ==
    Aggregated =>
        sc_total = RoundDiv(SumSeq([i \in 1..Len(VarsDescending) |->
                                       ClaimedWeight(i) * VarsDescending[i]]), 10)

\* C21: the total is the sum of weight * value_at_risk over the enriched
\* signals taken by value_at_risk descending, with weights 1.0, 0.2, 0.1 and
\* 0.1 for every further rank; it never exceeds the plain sum of the
\* values and equals it when there is exactly one signal.
C21_WeightedTotalAtMostPlainSum ==
    /\ TotalIsWeightedSum
    /\ Aggregated => sc_total <= PlainSum
    /\ (Aggregated /\ Len(sc_enriched) = 1) => sc_total = PlainSum


\* ---- re-running the scorer under the fallback ----

AllFallback == \A i \in 1..Len(sc_in) : sc_resp[i] = ProviderFail3

\* the (input article, value_at_risk) pairs of a returned article list
VarByArticle(arts) ==
    {<<arts[i].art, arts[i].value_at_risk>> : i \in 1..Len(arts)}

\* C22: with every provider call answered by its fallback, a run of
\* scorer_node under any completion order of the worker tasks returns the
\* same value_at_risk for each signal, the same total_var_impact and the
\* same severity_score as any other run on the same signals.
C22_FallbackRunsAgree ==
    (sc_pc = "returned" /\ AllFallback) =>
        \A order \in Perms(Len(sc_in)) :
            LET other == ScorerNode(sc_in, sc_resp, order)
            IN  /\ VarByArticle(sc_out.articles) = VarByArticle(other.articles)
                /\ Len(sc_out.articles) = Len(other.articles)
                /\ sc_out.total_var_impact = other.total_var_impact
                /\ sc_out.severity_score = other.severity_score

\* two signals of different value were collected in the reverse of their
\* input order, all under the fallback
C22_Witness ==
    /\ sc_pc = "returned"
    /\ AllFallback
    /\ Len(sc_in) = 2
    /\ Len(sc_out.articles) = 2
    /\ sc_out.articles[1].art = sc_in[2]
    /\ sc_out.articles[1].value_at_risk < sc_out.articles[2].value_at_risk


\* ---- the parallel block ----

\* C23 as stated: no provider call of Precedent Research and no provider
\* call of Risk Quantifier are made with the same API key, whatever the
\* configured keys, including when only one key is configured.
C23_DifferentCredentials ==
    \A c2, c3 \in k_calls :
        (c2.agent = "agent2" /\ c3.agent = "agent3") => c2.key # c3.key


\* every enriched record is a record of the shared list with the derived
\* fields beside it
EnrichedFromList ==
    \A k \in 1..Len(k_enriched) :
        \E i \in k_a3 : k_enriched[k].art = k_articles[i]

\* C24: Precedent Research and Risk Quantifier, handed the same signal
\* list concurrently, leave the list and every record in it unchanged;
\* Risk Quantifier returns its enriched records as new records.
C24_SharedListUnchanged ==
    /\ []EnrichedFromList
    /\ [][k_articles' = k_articles]_vars

\* both workers have gone over a list of two records and returned
C24_Witness ==
    /\ k_pc = "joined"
    /\ Len(k_articles) = 2
    /\ Len(k_details) = 2
    /\ Len(k_enriched) = 2
    /\ k_a2 = "returned_full"


\* ---- the sort and the topic groups of ingestion ----

Sorted == w_pc \in {"cluster", "returned"}

\* the articles in discovery order, as the loop collected them
Discovered == CollectArticles(w_raw, 1)

\* C25: the articles ingestion returns are sorted by exposure_score
\* descending, and articles with equal scores keep their discovery order.
C25_SortedTiesKeepDiscoveryOrder ==
    /\ Sorted =>
         \A i, j \in 1..Len(w_articles) :
            i < j =>
              /\ w_articles[i].exposure_score >= w_articles[j].exposure_score
              /\ w_articles[i].exposure_score = w_articles[j].exposure_score
                   => w_articles[i].id < w_articles[j].id
    /\ w_pc = "returned" => w_out.articles = w_articles

\* three articles were returned, two of them with equal scores and a
\* higher-scored one discovered after them
C25_Witness ==
    /\ w_pc = "returned"
    /\ Len(w_out.articles) >= 3
    /\ \E i, j \in 1..Len(w_out.articles) :
          /\ i < j
          /\ w_out.articles[i].exposure_score = w_out.articles[j].exposure_score
    /\ \E i, j \in 1..Len(w_out.articles) :
          /\ i < j
          /\ w_out.articles[i].id > w_out.articles[j].id

Permuted(s, p) == [i \in 1..Len(s) |-> s[p[i]]]

Scores(arts) == [i \in 1..Len(arts) |-> arts[i].exposure_score]

NoEqualScores(arts) ==
    \A i, j \in 1..Len(arts) :
        i # j => arts[i].exposure_score # arts[j].exposure_score

Memberships(id) ==
    SumSeq([k \in 1..Len(w_out.subjects) |->
               Cardinality({m \in 1..Len(w_out.subjects[k].articles) :
                               w_out.subjects[k].articles[m].id = id})])

\* C27 as stated: every returned article is a member of exactly one topic
\* group, once, whatever the clustering answer.
C27_GroupsPartitionArticles ==
    w_pc = "returned" =>
        \A i \in 1..Len(w_out.articles) : Memberships(w_out.articles[i].id) = 1

\* C28 as stated: no returned topic group has more than 3 members.
C28_GroupsOfAtMostThree ==
    w_pc = "returned" =>
        \A k \in 1..Len(w_out.subjects) : Len(w_out.subjects[k].articles) <= 3

\* C29 as stated: the members of every returned topic group are in
\* descending order of exposure_score.
C29_GroupMembersDescending ==
    w_pc = "returned" =>
        \A k \in 1..Len(w_out.subjects) :
            \A i, j \in 1..Len(w_out.subjects[k].articles) :
                i < j => w_out.subjects[k].articles[i].exposure_score
                           >= w_out.subjects[k].articles[j].exposure_score


\* ---- the rating scale ----

RatingsInRange(a) ==
    /\ DictGet(a, "authority_score", 0) \in 1..5
    /\ DictGet(a, "severity_score", 0) \in 1..5
    /\ DictGet(a, "exposure_score", 0) >= 0

\* every article watcher_node collected or returned is on the scale
IngestionRatingsInRange ==
    /\ \A i \in 1..Len(w_articles) : RatingsInRange(w_articles[i])
    /\ w_pc = "returned" =>
         \A i \in 1..Len(w_out.articles) : RatingsInRange(w_out.articles[i])

\* every enriched article scorer_node returned is on the scale
EnrichedRatingsInRange ==
    sc_pc = "returned" =>
        \A i \in 1..Len(sc_out.articles) : RatingsInRange(sc_out.articles[i].art)

\* C30 as stated: every article ingestion returns and every enriched
\* article the risk quantifier returns has authority_score and
\* severity_score in 1..5 and exposure_score >= 0, whatever the provider or
\* the caller supplied.
C30_RatingsWithinScale ==
    /\ IngestionRatingsInRange
    /\ EnrichedRatingsInRange


\* ---- ingestion with nothing to report ----

\* the item is dropped by the pre-filters or flagged non-substantive
Dropped(item) ==
    \/ ~item.title_ok
    \/ item.promo
    \/ item.llm = "not_substantive"

NoItemSurvives == \A i \in 1..Len(SearchResults) : Dropped(SearchResults[i])

\* C31: when no item survives ingestion (the search returns nothing, or
\* every item is pre-filtered or flagged non-substantive), watcher_node
\* returns an empty article list and an empty subject list.
C31_NothingSurvivesReturnsEmpty ==
    (w_pc = "returned" /\ NoItemSurvives) =>
        /\ w_out.articles = <<>>
        /\ w_out.subjects = <<>>
        /\ {"articles", "subjects"} \subseteq w_out.keys

\* the search found two items, one dropped by a pre-filter and one flagged
\* non-substantive, and the call went through the grouping to its return
C31_Witness ==
    /\ w_pc = "returned"
    /\ Len(w_raw) = 2
    /\ w_idx > Len(w_raw)
    /\ NoItemSurvives
    /\ \E i \in 1..2 : w_raw[i].llm = "not_substantive" /\ w_raw[i].title_ok /\ ~w_raw[i].promo
    /\ \E i \in 1..2 : ~w_raw[i].title_ok \/ w_raw[i].promo


\* ---- the portfolio's severity ----

\* the severity ratings of the returned enriched articles
ReturnedSeverities ==
    {DictGet(sc_out.articles[i].art, "severity_score", 0) :
        i \in 1..Len(sc_out.articles)}

RetryDone == r_pc \in {"returned", "raised"}

\* the first call of fn that does not raise, 0 when every call raises
FirstSuccess ==
    IF \A k \in 1..r_retries : r_fn[k] = "raise" THEN 0
    ELSE CHOOSE k \in 1..r_retries :
            /\ r_fn[k] # "raise"
            /\ \A j \in 1..(k - 1) : r_fn[j] = "raise"

\* C33: _retry_llm calls fn at most retries times, returns the result of
\* the first successful attempt without calling fn again, sleeps
\* 2^attempt seconds between attempts only (never after the last one), and
\* raises RuntimeError exactly when every attempt failed.
C33_BoundedRetry ==
    /\ r_calls <= r_retries
    /\ r_retries <= MAX_LLM_RETRIES
    /\ r_pc = "returned" =>
          /\ FirstSuccess # 0
          /\ r_calls = FirstSuccess
          /\ r_out.value = r_fn[FirstSuccess]
    /\ r_pc = "raised" =>
          /\ FirstSuccess = 0
          /\ r_calls = r_retries
          /\ r_out.kind = "RuntimeError"
    /\ RetryDone =>
          /\ (r_pc = "raised") <=> (FirstSuccess = 0)
          /\ r_sleeps = [k \in 1..(r_calls - 1) |-> Pow2(k)]
    /\ Len(r_sleeps) <= r_calls

\* three attempts failed: two sleeps, of 2 and 4 seconds, then the raise
C33_Witness ==
    /\ r_pc = "raised"
    /\ r_retries = MAX_LLM_RETRIES
    /\ r_calls = 3
    /\ r_sleeps = <<2, 4>>


\* ---- the fan-out of the risk quantifier ----

\* how far the task of one input article has got
TaskRank(status) ==
    CASE status = "unsubmitted" -> 0
      [] status = "pending" -> 1
      [] status = "running" -> 2
      [] status \in FinishedTask -> 3
      [] status = "collected" -> 4

\* C34: at most 5 enrichment calls are in flight at any time during the
\* fan-out of scorer_node, and every input article is submitted for
\* enrichment exactly once: one task per article from the submit on, and
\* no task is ever started or run a second time.
C34_AtMostFiveInFlightEachOnce ==
    /\ [](Cardinality(RunningTasks) <= 5)
    /\ [](sc_pc \notin {"idle", "start"} =>
             /\ DOMAIN sc_task = 1..Len(sc_in)
             /\ \A i \in 1..Len(sc_in) : sc_task[i] # "unsubmitted")
    /\ [][\A i \in 1..Len(sc_in) :
             /\ TaskRank(sc_task'[i]) >= TaskRank(sc_task[i])
             /\ TaskRank(sc_task'[i]) <= TaskRank(sc_task[i]) + 1]_vars

\* six articles were submitted: five enrichments are running and the sixth
\* waits for a worker
C34_Witness ==
    /\ Len(sc_in) = 6
    /\ Cardinality(RunningTasks) = 5
    /\ \E i \in 1..6 : sc_task[i] = "pending" /\ ~ENABLED SC_TaskStart(i)


\* ---- the viral bands ----

ViralBands == {80, 120, 150, 250}

\* the viral coefficient (times 100) behind the reach of a returned
\* enriched article: reach = 5000 * authority * (severity / 2) * viral
ViralUsed(e) ==
    (e.reach_estimate * 200)
        \div (REACH_MULTIPLIER * e.art.authority_score * e.art.severity_score)

\* the provider's value passes the validation of ArticleTopicAndViral
ViralValidated(resp) == resp.ok /\ resp.viral >= 50 /\ resp.viral <= 300

\* C35: the viral coefficient used to compute reach is always one of the
\* bands 0.8, 1.2, 1.5, 2.5 (the provider's value snapped, 1.2 on the
\* fallback); the snapping never decreases when the provider's value
\* increases, and maps each of the four band values to itself.
C35_ViralSnappedToBands ==
    (sc_pc = "returned" /\ Len(sc_out.articles) = 1) =>
        LET used == ViralUsed(sc_out.articles[1])
            resp == sc_resp[1]
        IN  /\ used \in ViralBands
            /\ ~ViralValidated(resp) => used = 120
            /\ ViralValidated(resp) =>
                  /\ resp.viral \in ViralBands => used = resp.viral
                  /\ \A lower \in 50..resp.viral : SnapViral(lower) <= used
                  /\ \A upper \in resp.viral..300 : SnapViral(upper) >= used

\* the provider answered 1.36, just above a band boundary, and the reach
\* was computed with 1.5
C35_Witness ==
    /\ sc_pc = "returned"
    /\ Len(sc_out.articles) = 1
    /\ sc_resp[1].ok
    /\ sc_resp[1].viral = 136
    /\ ViralUsed(sc_out.articles[1]) = 150


\* ---- merging the results of the parallel block ----

\* d[k] for a key whose value the model carries
FieldOf(d, k) == IF k \in DOMAIN d THEN d[k] ELSE "not modelled"

\* the run state before the merge, as far as the two results can touch it
StateBeforeMerge == [keys |-> {"articles"}, val |-> [k \in {"articles"} |-> articles]]

\* state.update(u)
Update(state, u) ==
    [keys |-> state.keys \cup u.keys,
     val |-> [k \in state.keys \cup u.keys |->
                 IF k \in u.keys THEN FieldOf(u, k) ELSE state.val[k]]]

BothResultsIn == result2 # NoResult /\ result3 # NoResult

\* C36: the results of Precedent Research and Risk Quantifier have no key
\* in common, so updating the run state with them gives the same state in
\* either order, whichever of the two finished first.
C36_DisjointKeysMergeCommutes ==
    BothResultsIn =>
        /\ result2.keys \cap result3.keys = {}
        /\ Update(Update(StateBeforeMerge, result2), result3)
             = Update(Update(StateBeforeMerge, result3), result2)

\* both stages ran in the pool and returned cases and enriched articles,
\* and main is about to merge them
C36_Witness ==
    /\ driver = "main"
    /\ ~skip_agent2
    /\ pc = "merge"
    /\ DictGet(result2, "precedents", <<>>) # <<>>
    /\ DictGet(result3, "articles", <<>>) # <<>>


\* ---- the invoice without a usable alert label ----

KNOWN_LABELS == {"IGNORE", "SOFT", "MEDIUM", "CRITICAL"}

\* strategist_from_data returned its error dict (empty strategy_report)
StrategistFailed == DictGet(result4, "strategy_report", EmptyDict).keys = {}

\* the strategy report carries a label that is none of the four
UnknownLabel ==
    /\ ~StrategistFailed
    /\ result4.strategy_report.alert_level \notin KNOWN_LABELS

InvoiceAsForMedium ==
    /\ BuiltInvoice.tier_name = "Shield"
    /\ BuiltInvoice.tier_price_eur = 999
    /\ Len(BuiltInvoice.line_items) = 3
    /\ ~BuiltInvoice.action_refused

\* the invoice after a failed Strategy Synthesis is the MEDIUM one
FailedStrategistInvoiceAsForMedium ==
    (InvoiceBuilt /\ StrategistFailed) => InvoiceAsForMedium

ReplyFlags(i) ==
    /\ p_verify.kind = "text"
    /\ \E p \in 1..(Len(p_verify.text) - 1) :
          /\ p_verify.text[p] = Marker[i]
          /\ p_verify.text[p + 1] = "FABRICATED"

FlaggedCases == {i \in 1..Len(p_extract.past_cases) : ReplyFlags(i)}

\* the extracted cases without the flagged ones, in their order
Unflagged ==
    LET n == Len(p_extract.past_cases)
        kept == SelectSeq([i \in 1..n |-> i], LAMBDA i : i \notin FlaggedCases)
    IN  [k \in 1..Len(kept) |-> p_extract.past_cases[kept[k]]]

VerificationDone == p_pc = "match" /\ p_extract.kind = "output"

\* C38: the fabrication check never leaves an empty case list: it removes
\* only the cases the reply flags as fabricated, and when every case is
\* flagged it keeps all the extracted cases with confidence low.
C38_FabricationCheckNeverEmpties ==
    VerificationDone =>
        /\ p_output.past_cases # <<>>
        /\ IF FlaggedCases = 1..Len(p_extract.past_cases)
           THEN /\ p_output.past_cases = p_extract.past_cases
                /\ p_output.confidence = "low"
           ELSE p_output.past_cases = Unflagged

C38_Witness ==
    /\ VerificationDone
    /\ Len(p_extract.past_cases) = 2
    /\ FlaggedCases = {1, 2}
    /\ p_extract.confidence = "high"
    /\ p_output = Agent2Output(p_extract.past_cases, "low")

\* ---- Raising progress callback ----

\* the steps a run whose search returned hands to the callback
StepsOfRun ==
    IF SearchResults # <<>> THEN StepOrder
    ELSE <<STEP_INITIALIZING, STEP_SCANNING, STEP_COMPILING>>

\* C39: a progress callback that raises on step events does not change
\* what watcher_node returns: the call raises only when the search does,
\* it returns the articles and subjects that follow from the search and the
\* provider answers alone, and every step of the run is still handed to the
\* callback in order.
C39_RaisingCallbackChangesNothing ==
    /\ w_pc = "raised" => w_search = "raises"
    /\ w_pc = "returned" =>
          /\ w_out = WatcherNode(SearchResults, w_cluster)
          /\ w_events = StepsOfRun

C39_Witness ==
    /\ w_pc = "returned"
    /\ \A step \in Range(StepOrder) : w_on_step[step] = "raises"
    /\ w_out.articles # <<>>
    /\ w_events = StepOrder

\* ---- Identifiers of a run ----

\* the crisis_id returned was generated by none of the earlier calls and is
\* not the crisis_id of the input state
FreshCrisisId ==
    /\ w_out_ids.crisis_id \notin w_issued
    /\ "crisis_id" \in w_state.keys => w_out_ids.crisis_id # w_state.crisis_id

Derived == DeriveCustomerId(DictGet(w_state, "company_name", <<>>))

\* C40 as stated: every call returns a fresh crisis_id, different from that
\* of every earlier call and from any crisis_id of the input state; a
\* customer_id present in the input state is returned unchanged, and the
\* id is derived from the company name only when the key is absent.
C40_FreshCrisisIdSuppliedCustomerId ==
    w_pc = "returned" =>
        /\ FreshCrisisId
        /\ w_out_ids.customer_id =
              IF "customer_id" \in w_state.keys THEN w_state.customer_id ELSE Derived

\* C40: every call returns a fresh crisis_id, different from that of every
\* earlier call and from any crisis_id of the input state; a non-empty
\* customer_id of the input state is returned unchanged, and the id is
\* derived from the company name when the key is absent or its value empty.
C40_FreshCrisisIdNonEmptyCustomerId ==
    w_pc = "returned" =>
        /\ FreshCrisisId
        /\ w_out_ids.customer_id =
              IF "customer_id" \in w_state.keys /\ w_state.customer_id # <<>>
              THEN w_state.customer_id ELSE Derived

\* a later call whose input state carries the crisis_id of an earlier call
\* and a customer_id with a capital and a dash
C40_Witness ==
    /\ w_pc = "returned"
    /\ w_issued # {}
    /\ "crisis_id" \in w_state.keys
    /\ w_state.crisis_id \in w_issued
    /\ w_out_ids.crisis_id \notin w_issued
    /\ w_out_ids.customer_id = <<"A", "-", "1">>

====
